---- MODULE Spec2Model ----
(***************************************************************************)
(* A model of the graphrag-search service: the tool-orchestration loop of  *)
(* agents/search_agent.py with the services it dispatches to, the loading *)
(* of its tool definitions, the context builders of                        *)
(* query/neo4j_global_context.py and query/neo4j_local_context.py, the    *)
(* connection manager of service/connection.py, and the concurrent /query  *)
(* requests of main.py.                                                    *)
(*                                                                         *)
(* Python values are modelled as strings (None, True, False, text atoms),  *)
(* character strings as sequences of ASCII codes, dicts as functions.      *)
(***************************************************************************)
EXTENDS Integers, Sequences, FiniteSets, TLC

VARIABLES
    user_email,               \* SearchAgent.user_email
    tool_classifications,     \* SearchAgent.tool_classifications
    tools,                    \* SearchAgent.tools
    reasoning_model_history,  \* SearchAgent.reasoning_model_history
    pc,                       \* position of run(): Planning, ToolExecuting, HistoryUpdate, SufficiencyCheck, done
    iteration,                \* number of loop iterations of run() entered so far
    reasoning_response,       \* the step returned by reasoning_model() in this iteration
    tool_result,              \* the value returned by call_tool() in this iteration
    result_str,               \* the text handed to _truncate_content in this iteration
    judge_prompt,             \* the query and the history text in the evaluation_prompt of this iteration's judge call
    judge_content,           \* response.choices[0].message.content of this iteration's judge call
    evaluation,               \* the value returned by evaluate_sufficiency() in this iteration
    outcome,                  \* Running, Done, Exhausted, Raised
    result,                   \* the value run() returned
    reasoning_requests,       \* calls of reasoning_model() in this run
    sufficiency_checks,       \* calls of evaluate_sufficiency() in this run
    tool_calls,               \* calls of call_tool() in this iteration
    backend_calls,            \* service operations invoked in this iteration
    graph_queries,            \* scoping key of each graph-store query issued in this iteration
    returned,                 \* identifiers of the graph records returned to the run in this iteration
    variant,                  \* which context builder build_context() runs on: global, local
    builder_user_email,       \* the builder's self.user_email
    openai_client,            \* Neo4jLocalContext.openai_client (None without an API key)
    token_encoder,            \* the builder's self.token_encoder
    search_query,             \* build_context(query=...)
    options,                  \* the keyword arguments of build_context()
    graph,                    \* the nodes of the graph store the builder reads
    build_pc,                 \* position of build_context(): idle, Start, Retrieved, Returned, Raised
    session_runs,             \* scoping key of each session.run() of this build_context()
    records,                  \* community_reports / chunks_data
    packed,                   \* batch_records / current_records of the packer
    packer_returns,           \* what the packer returned to build_context()
    context_chunks,           \* ContextBuilderResult.context_chunks
    context_records,          \* ContextBuilderResult.context_records
    build_error,              \* the exception build_context() raised, None without one
    embed_outcome,            \* embed(query) of get_chunks_from_neo4j: none, ok, raised
    tools_dir,                \* the files of the tools directory, in os.listdir order
    load_warnings,            \* positions of the files _load_tools logged a warning for
    load_error,               \* the exception SearchAgent.__init__ raised, None without one
    max_connections,          \* StructuredDataConnection.max_connections
    _pool,                    \* StructuredDataConnection._pool: the idle and the checked-out connections
    _is_connected,            \* StructuredDataConnection._is_connected
    last_call,                \* the last operation called on the connection manager and how it ended
    requests,                 \* the SearchAgent of each /query request in flight: its user_email, history, iteration and position
    neo4j_local_context,      \* UnstructuredService.neo4j_local_context of the one service the requests share
    connection_calls          \* operations called on the connection manager so far

vars == <<user_email, tool_classifications, tools, reasoning_model_history, pc,
          iteration, reasoning_response, tool_result, result_str, judge_prompt,
                   judge_content,
          evaluation, outcome, result, reasoning_requests, sufficiency_checks,
          tool_calls, backend_calls, graph_queries, returned,
          variant, builder_user_email, openai_client, token_encoder, search_query,
          options, graph, build_pc, session_runs, records, packed, packer_returns,
          context_chunks, context_records, build_error, embed_outcome, tools_dir, load_warnings, load_error,
          max_connections, _pool, _is_connected, last_call, connection_calls,
          requests, neo4j_local_context>>

\* the state of the /query requests in flight and of the service they share
request_vars == <<requests, neo4j_local_context>>

\* the state of StructuredDataConnection
connection_vars == <<max_connections, _pool, _is_connected, last_call, connection_calls>>

\* the state of SearchAgent._load_tools()
loader_vars == <<tools_dir, load_warnings, load_error>>

\* the state of SearchAgent.run()
agent_vars == <<user_email, tool_classifications, tools, reasoning_model_history, pc,
                iteration, reasoning_response, tool_result, result_str, judge_prompt,
                   judge_content,
                evaluation, outcome, result, reasoning_requests, sufficiency_checks,
                tool_calls, backend_calls, graph_queries, returned>>

\* the state of a context builder's build_context()
builder_vars == <<variant, builder_user_email, openai_client, token_encoder,
                  search_query, options, graph, build_pc, session_runs, records,
                  packed, packer_returns, context_chunks, context_records,
                  build_error, embed_outcome>>

----------------------------------------------------------------------------
(* Python values *)

None == "None"

PyTrue == "True"

PyFalse == "False"

\* bool(v) of a Python value
Truthy(v) == v \notin {None, PyFalse, ""}

\* dict.get(key)
DictGet(d, key) == IF key \in DOMAIN d THEN d[key] ELSE None

EmptyDict == <<>>

\* a text of n lower-case letters
Payload(n) == [i \in 1..n |-> 97 + (i % 26)]

----------------------------------------------------------------------------
(* Bounds of the model *)

\* the longest text a tool or the reasoning model returns
MaxTextLen == 2003

\* the reasoning model's step is arbitrary in the first MaxVaried iterations and in
\* the last one, and the short message in the others
MaxVaried == 1

----------------------------------------------------------------------------
(* The graph store: records owned by the identity that ingested them *)

SystemEmail == "system@example.com"

Alice == "alice@example.com"

Bob == "bob@example.com"

\* QueryRequest.email is any string, the empty one included
Emails == {Alice, Bob, ""}

GraphData ==
    { [id |-> 1, owner |-> Alice], [id |-> 2, owner |-> Alice],
      [id |-> 3, owner |-> Bob], [id |-> 4, owner |-> SystemEmail] }

\* scoping key of a query that filters on no userEmail
Unscoped == "*"

\* identifiers of the records a query with this scoping key matches
Match(scope) == { r.id : r \in { x \in GraphData : scope = Unscoped \/ x.owner = scope } }

OwnedBy(email) == { r.id : r \in { x \in GraphData : x.owner = email } }

----------------------------------------------------------------------------
(* Results of tool calls and their JSON serialization *)

\* "No tool call"
NoToolCallText == <<78, 111, 32, 116, 111, 111, 108, 32, 99, 97, 108, 108>>

NoResult == [kind |-> "none", payload |-> <<>>]

\* the string call_tool returns for a tool without a backend class
NoToolCall == [kind |-> "str", payload |-> NoToolCallText]

\* {"error": "Unknown function: <name>"}
UnknownFunction == [kind |-> "unknown_function", payload |-> Payload(4)]

\* {"response": ..., "context_data": ..., "success": True}
SuccessEnvelope(text) == [kind |-> "success", payload |-> text]

\* {"success": False, "error": str(e)}
FailureEnvelope == [kind |-> "failure", payload |-> Payload(5)]

\* the (response, context_data) pair neo4j_local_search returns
LocalSearchPair(text) == [kind |-> "pair", payload |-> text]

\* a list of rows or names
Rows(text) == [kind |-> "rows", payload |-> text]

\* {"error": str(e)} of DatabaseSchema.custom_query
ErrorDict == [kind |-> "error", payload |-> Payload(5)]

\* json.dumps(response)
json_dumps(r) ==
    CASE r.kind = "str" -> <<34>> \o r.payload \o <<34>>
      [] r.kind = "unknown_function" ->
            <<123, 34, 101, 114, 114, 111, 114, 34, 58, 32, 34, 85, 110, 107, 110, 111, 119, 110>>
            \o r.payload \o <<34, 125>>
      [] r.kind = "success" ->
            <<123, 34, 115, 117, 99, 99, 101, 115, 115, 34, 58, 32, 116, 114, 117, 101, 44, 32, 34>>
            \o r.payload \o <<34, 125>>
      [] r.kind = "failure" ->
            <<123, 34, 115, 117, 99, 99, 101, 115, 115, 34, 58, 32, 102, 97, 108, 115, 101, 44, 32, 34>>
            \o r.payload \o <<34, 125>>
      [] r.kind = "pair" -> <<91, 34>> \o r.payload \o <<34, 44, 32, 123, 125, 93>>
      [] r.kind = "rows" -> <<91>> \o r.payload \o <<93>>
      [] r.kind = "error" ->
            <<123, 34, 101, 114, 114, 111, 114, 34, 58, 32, 34>> \o r.payload \o <<34, 125>>
      [] OTHER -> <<110, 117, 108, 108>>

----------------------------------------------------------------------------
(* Tool definitions and their classification *)

\* the files of the agent's tools directory: name and tool_type of the JSON
\* object in each, and whether the file parses
ToolsDir ==
    << [json |-> TRUE,  load |-> "dict", name |-> "global_search",    tool_type |-> "unstructured"],
       [json |-> TRUE,  load |-> "dict", name |-> "local_search",     tool_type |-> "unstructured"],
       [json |-> TRUE,  load |-> "dict", name |-> "run_cypher_query", tool_type |-> "unstructured"],
       [json |-> TRUE,  load |-> "dict", name |-> "get_all_tables",   tool_type |-> "structured"],
       [json |-> TRUE,  load |-> "dict", name |-> "get_table_schema", tool_type |-> "structured"],
       [json |-> TRUE,  load |-> "dict", name |-> "run_sql_query",    tool_type |-> "structured"],
       [json |-> TRUE,  load |-> "dict", name |-> "get_sample_rows",  tool_type |-> "structured"],
       [json |-> TRUE,  load |-> "dict", name |-> "get_top_k_documents", tool_type |-> "unstructured"],
       [json |-> TRUE,  load |-> "dict", name |-> "summarize",        tool_type |-> None],
       [json |-> TRUE,  load |-> "JSONDecodeError", name |-> "broken_tool",      tool_type |-> "structured"],
       [json |-> FALSE, load |-> "dict", name |-> "README",           tool_type |-> None] >>

\* the names a function_call of the reasoning model may carry
RequestableTools == { ToolsDir[i].name : i \in 1..Len(ToolsDir) } \ {"README"}

\* the exceptions the try block of _load_tools handles with a warning
CaughtByLoad == {"JSONDecodeError", "FileNotFoundError"}

\* what the try block raises on a file: open() or json.load() raises f.load,
\* and tool_def.get raises AttributeError on a document that is not an object
LoadRaises(f) ==
    IF f.load = "dict" THEN None
    ELSE IF f.load \in {"list", "str", "int"} THEN "AttributeError"
    ELSE f.load

\* the state _load_tools leaves after the first n files, and what it raised
RECURSIVE _load_tools(_, _)
_load_tools(dir, n) ==
    IF n = 0
    THEN [raised |-> None, tools |-> <<>>, tool_classifications |-> EmptyDict,
          warnings |-> <<>>]
    ELSE LET before == _load_tools(dir, n - 1)
             f == dir[n]
         IN IF before.raised # None \/ ~f.json THEN before
            ELSE IF LoadRaises(f) \in CaughtByLoad
            THEN [before EXCEPT !.warnings = Append(@, n)]
            ELSE IF LoadRaises(f) # None
            THEN [before EXCEPT !.raised = LoadRaises(f)]
            ELSE IF Truthy(f.name)
            THEN [before EXCEPT !.tools = Append(@, f.name),
                                !.tool_classifications = (f.name :> f.tool_type) @@ @]
            ELSE before

get_tool_type(classifications, tool_name) == DictGet(classifications, tool_name)

----------------------------------------------------------------------------
(* The services: each operation gives the value it returns (or raised),    *)
(* the service operations it invoked, the scoping key of each graph query   *)
(* it issued and the graph records it returned to the caller.               *)
(* env.fails: the backend or store raises during the operation;             *)
(* env.size: the size of the data it returns otherwise.                     *)

Effect(raised, res, calls, queries, ids) ==
    [raised |-> raised, result |-> res, calls |-> calls, queries |-> queries,
     returned |-> ids]

\* the userEmail filter of _get_community_reports_from_neo4j
GlobalQueryScope(email) == IF Truthy(email) THEN email ELSE Unscoped

\* UnstructuredService.global_search
global_search(email, env) ==
    IF env.fails
    THEN Effect(FALSE, FailureEnvelope, <<"global_search">>, <<>>, {})
    ELSE Effect(FALSE, SuccessEnvelope(Payload(env.size)), <<"global_search">>,
                <<GlobalQueryScope(email)>>, Match(GlobalQueryScope(email)))

\* UnstructuredService.local_search
local_search(email, env) ==
    IF ~Truthy(email) \/ env.fails
    THEN Effect(FALSE, FailureEnvelope, <<"local_search">>, <<>>, {})
    ELSE Effect(FALSE, LocalSearchPair(Payload(env.size)), <<"local_search">>,
                <<email>>, Match(email))

\* the scoping key of a Cypher text written by the reasoning model: "param"
\* filters on $user_email, "all" filters on nothing
CypherScope(cypher) == IF cypher = "param" THEN SystemEmail ELSE Unscoped

\* UnstructuredService.run_cypher_query
run_cypher_query(cypher, env) ==
    IF env.fails
    THEN Effect(TRUE, NoResult, <<"run_cypher_query">>, <<CypherScope(cypher)>>, {})
    ELSE Effect(FALSE, Rows(Payload(env.size)), <<"run_cypher_query">>,
                <<CypherScope(cypher)>>, Match(CypherScope(cypher)))

\* StructuredService.list_tables
list_tables(env) ==
    IF env.fails
    THEN Effect(FALSE, Rows(<<>>), <<"list_tables">>, <<>>, {})
    ELSE Effect(FALSE, Rows(Payload(env.size)), <<"list_tables">>, <<>>, {})

\* StructuredService.get_table_columns
get_table_columns(env) ==
    IF env.fails
    THEN Effect(FALSE, Rows(<<>>), <<"get_table_columns">>, <<>>, {})
    ELSE Effect(FALSE, Rows(Payload(env.size)), <<"get_table_columns">>, <<>>, {})

\* StructuredService.custom_query
custom_query(env) ==
    IF env.fails
    THEN Effect(FALSE, ErrorDict, <<"custom_query">>, <<>>, {})
    ELSE Effect(FALSE, Rows(Payload(env.size)), <<"custom_query">>, <<>>, {})

\* SearchAgent.unstructured_search
unstructured_search(tool_name, cypher, email, env) ==
    IF tool_name = "global_search" THEN global_search(email, env)
    ELSE IF tool_name = "local_search" THEN local_search(email, env)
    ELSE IF tool_name = "run_cypher_query" THEN run_cypher_query(cypher, env)
    ELSE Effect(FALSE, UnknownFunction, <<>>, <<>>, {})

\* SearchAgent.structured_search
structured_search(tool_name, env) ==
    IF tool_name = "get_all_tables" THEN list_tables(env)
    ELSE IF tool_name = "get_table_schema" THEN get_table_columns(env)
    ELSE IF tool_name = "run_sql_query" THEN custom_query(env)
    ELSE Effect(FALSE, UnknownFunction, <<>>, <<>>, {})

\* call_tool with a tool of no backend class handed to the structured backend
call_tool_unclassified_to_structured(classifications, tool_name, cypher, email, env) ==
    LET tool_type == get_tool_type(classifications, tool_name)
    IN IF tool_type = "unstructured"
       THEN unstructured_search(tool_name, cypher, email, env)
       ELSE structured_search(tool_name, env)

\* call_tool with the two backend classes exchanged
call_tool_exchanged(classifications, tool_name, cypher, email, env) ==
    LET tool_type == get_tool_type(classifications, tool_name)
    IN IF tool_type = "structured"
       THEN unstructured_search(tool_name, cypher, email, env)
       ELSE IF tool_type = "unstructured" THEN structured_search(tool_name, env)
       ELSE Effect(FALSE, NoToolCall, <<>>, <<>>, {})

\* SearchAgent.call_tool
call_tool(classifications, tool_name, cypher, email, env) ==
    LET tool_type == get_tool_type(classifications, tool_name)
    IN IF tool_type = "structured" THEN structured_search(tool_name, env)
       ELSE IF tool_type = "unstructured"
            THEN unstructured_search(tool_name, cypher, email, env)
       ELSE Effect(FALSE, NoToolCall, <<>>, <<>>, {})

----------------------------------------------------------------------------
(* The connection manager of the structured store (service/connection.py). *)
(* A pool is the number of its idle connections and the number checked out *)
(* of it.  store: "ok", "query_fails" (the statement raises), "store_down"  *)
(* (the store accepts no connection and runs no statement).                *)

\* the default of min_connections
min_connections == 1

\* self._pool = None
NoPool == [idle |-> 0, used |-> 0, maxconn |-> 0]

\* an operation of the connection manager has ended
Called(op, raised, returns) == [op |-> op, raised |-> raised, returns |-> returns]

\* SimpleConnectionPool(minconn, maxconn, ...): opens minconn connections
SimpleConnectionPool(minconn, maxconn) == [idle |-> minconn, used |-> 0, maxconn |-> maxconn]

\* pool.getconn(): an idle connection, else a new one unless maxconn are out
getconn(pool, store) ==
    IF pool.idle > 0
    THEN [raised |-> None, pool |-> [pool EXCEPT !.idle = @ - 1, !.used = @ + 1]]
    ELSE IF pool.used >= pool.maxconn THEN [raised |-> "PoolError", pool |-> pool]
    ELSE IF store = "store_down" THEN [raised |-> "OperationalError", pool |-> pool]
    ELSE [raised |-> None, pool |-> [pool EXCEPT !.used = @ + 1]]

\* pool.putconn(conn): the connection is idle again, or closed when minconn are
\* idle already or the connection is broken
putconn(pool, store) ==
    IF pool.idle < min_connections /\ store # "store_down"
    THEN [pool EXCEPT !.idle = @ + 1, !.used = @ - 1]
    ELSE [pool EXCEPT !.used = @ - 1]

\* StructuredDataConnection.is_connected
is_connected(connected, pool) == connected /\ pool # NoPool

\* StructuredDataConnection.connect
connect(pool, maxconn, store) ==
    IF store = "store_down"
    THEN [returns |-> PyFalse, pool |-> pool, connected |-> FALSE]
    ELSE LET taken == getconn(SimpleConnectionPool(min_connections, maxconn), store)
         IN IF taken.raised # None \/ store = "query_fails"
            THEN [returns |-> PyFalse, pool |-> taken.pool, connected |-> FALSE]
            ELSE [returns |-> PyTrue, pool |-> taken.pool, connected |-> TRUE]

\* StructuredDataConnection.disconnect
disconnect(pool, connected) ==
    IF pool # NoPool THEN [pool |-> NoPool, connected |-> FALSE]
    ELSE [pool |-> pool, connected |-> connected]

\* with self.get_connection() as conn: a body that runs statements on conn
get_connection(pool, connected, store) ==
    IF ~is_connected(connected, pool)
    THEN [raised |-> "ConnectionError", pool |-> pool]
    ELSE LET taken == getconn(pool, store)
         IN IF taken.raised # None THEN [raised |-> taken.raised, pool |-> pool]
            ELSE IF store # "ok"
            THEN [raised |-> "DatabaseError", pool |-> putconn(taken.pool, store)]
            ELSE [raised |-> None, pool |-> putconn(taken.pool, store)]

\* StructuredDataConnection.execute_query
execute_query(pool, connected, store) ==
    LET c == get_connection(pool, connected, store)
    IN [raised |-> c.raised, returns |-> IF c.raised = None THEN "rows" ELSE None,
        pool |-> c.pool]

\* StructuredDataConnection.test_connection
test_connection(pool, connected, store) ==
    IF ~is_connected(connected, pool)
    THEN [raised |-> None, returns |-> "not established", pool |-> pool]
    ELSE LET c == get_connection(pool, connected, store)
         IN [raised |-> None,
             returns |-> IF c.raised = None THEN "success" ELSE "failure",
             pool |-> c.pool]

\* DatabaseSchema.list_tables, as StructuredService.list_tables calls it
DatabaseSchema_list_tables(pool, connected, store) ==
    LET e == execute_query(pool, connected, store)
    IN [raised |-> None, returns |-> IF e.raised = None THEN "table names" ELSE "[]",
        pool |-> e.pool]

\* DatabaseSchema.get_table_columns
DatabaseSchema_get_table_columns(pool, connected, store) ==
    LET e == execute_query(pool, connected, store)
    IN [raised |-> None, returns |-> IF e.raised = None THEN "rows" ELSE "[]",
        pool |-> e.pool]

\* DatabaseSchema.custom_query
DatabaseSchema_custom_query(pool, connected, store) ==
    LET e == execute_query(pool, connected, store)
    IN [raised |-> None, returns |-> IF e.raised = None THEN "rows" ELSE "error dict",
        pool |-> e.pool]

\* no connection manager is in use
NoConnection ==
    /\ max_connections = 10
    /\ _pool = NoPool
    /\ _is_connected = FALSE
    /\ last_call = Called("__init__", None, None)
    /\ connection_calls = 0

\* the /query requests the service handles at the same time
Runs == {1, 2}

\* no SearchAgent was constructed for the request
NoAgent == [user_email |-> None, reasoning_model_history |-> <<>>, iteration |-> 0,
            pc |-> "idle"]

\* UnstructuredService before any initialize_neo4j_local_context: no context
NoContext == [user_email |-> None, installed_by |-> 0]

\* no /query request is in flight
NoRequests ==
    /\ requests = [r \in Runs |-> NoAgent]
    /\ neo4j_local_context = NoContext

----------------------------------------------------------------------------
(* History of the reasoning loop *)

\* the default of _truncate_content's max_length
DefaultMaxLength == 2000

\* "... [truncated]"
TruncationMarker == <<46, 46, 46, 32, 91, 116, 114, 117, 110, 99, 97, 116, 101, 100, 93>>

\* "Tool result: "
ToolResultPrefix == <<84, 111, 111, 108, 32, 114, 101, 115, 117, 108, 116, 58, 32>>

\* _truncate_content cutting at >= max_length
_truncate_content_off_by_one(content, max_length) ==
    IF Len(content) >= max_length
    THEN SubSeq(content, 1, max_length) \o TruncationMarker
    ELSE content

\* SearchAgent._truncate_content
_truncate_content(content, max_length) ==
    IF Len(content) > max_length
    THEN SubSeq(content, 1, max_length) \o TruncationMarker
    ELSE content

\* the text update_reasoning_model_history truncates: json.dumps of a tool
\* result, str of a message
ResultText(response, response_type) ==
    IF response_type = "function_call" THEN json_dumps(response) ELSE response

\* a history update that overwrites the last entry instead of appending
update_reasoning_model_history_overwrite(history, response, response_type) ==
    [history EXCEPT ![Len(history)] =
        [role |-> "assistant",
         content |-> _truncate_content(ResultText(response, response_type), DefaultMaxLength)]]

\* SearchAgent.update_reasoning_model_history
update_reasoning_model_history(history, response, response_type) ==
    IF response_type = "function_call"
    THEN Append(history,
                [role |-> "assistant",
                 content |-> ToolResultPrefix
                     \o _truncate_content(ResultText(response, response_type), DefaultMaxLength)])
    ELSE IF response_type = "message"
    THEN Append(history,
                [role |-> "assistant",
                 content |-> _truncate_content(ResultText(response, response_type), DefaultMaxLength)])
    ELSE history

\* REASONING_PROMPT, the content of system_prompts/reasoning_prompt.txt
REASONING_PROMPT == <<112, 108, 97, 110>>

\* the query of the request
Query == <<119, 104, 111, 63>>

\* SearchAgent.__init__: the history a run starts with
InitialHistory ==
    << [role |-> "system", content |-> REASONING_PROMPT],
       [role |-> "user", content |-> Query] >>

----------------------------------------------------------------------------
(* The sufficiency judge *)

Answer == "the final answer"

\* a judge response: t = "none" (no content), "garbage" (text that is no JSON)
\* or "json" with the JSON value of kind k; o is the dict of a JSON object
JudgeResponse(t, k, o) == [t |-> t, k |-> k, o |-> o]

Verdict(sufficient, final_answer) ==
    JudgeResponse("json", "object",
        ("sufficient" :> sufficient) @@ ("reasoning" :> "why") @@ ("final_answer" :> final_answer))

JudgeContents ==
    { JudgeResponse("none", "-", EmptyDict),
      JudgeResponse("garbage", "-", EmptyDict),
      JudgeResponse("json", "array", EmptyDict),
      JudgeResponse("json", "null", EmptyDict),
      JudgeResponse("json", "object", EmptyDict),
      JudgeResponse("json", "object", ("verdict" :> "yes")),
      JudgeResponse("json", "object", ("sufficient" :> PyTrue) @@ ("reasoning" :> "why")),
      Verdict(PyFalse, None),
      Verdict(PyFalse, Answer),
      Verdict(PyTrue, None),
      Verdict(PyTrue, ""),
      Verdict(PyTrue, Answer) }

\* the dict evaluate_sufficiency returns when json.loads raises
FailedToEvaluate ==
    [k |-> "object",
     o |-> ("sufficient" :> PyFalse) @@ ("reasoning" :> "Failed to evaluate")
           @@ ("final_answer" :> None)]

\* get_reasoning_model_history giving the content of the last message only
get_reasoning_model_history_last(history) ==
    IF history = <<>> THEN <<>> ELSE history[Len(history)].content

\* SearchAgent.get_reasoning_model_history: "\n".join of the contents
RECURSIVE get_reasoning_model_history(_)
get_reasoning_model_history(history) ==
    IF history = <<>> THEN <<>>
    ELSE IF Len(history) = 1 THEN history[1].content
    ELSE get_reasoning_model_history(SubSeq(history, 1, Len(history) - 1))
           \o <<10>> \o history[Len(history)].content

\* SearchAgent.evaluate_sufficiency: what evaluation_prompt is built from
evaluation_prompt(query, history_text) == [query |-> query, history |-> history_text]

\* no judge call was made in this iteration
NoPrompt == [query |-> <<>>, history |-> <<>>]

\* SearchAgent.evaluate_sufficiency: the Python value json.loads gives, or the
\* default when it raises
evaluate_sufficiency(content) ==
    IF content.t = "json" THEN [k |-> content.k, o |-> content.o] ELSE FailedToEvaluate

NoEvaluation == [k |-> "-", o |-> EmptyDict]

\* evaluation.get(...) of run() raises AttributeError on a value that is no dict
GetRaises(value) == value.k # "object"

\* a test of run() that stops on a sufficient verdict with any final_answer
IsSufficient_any_answer(value) ==
    Truthy(DictGet(value.o, "sufficient")) /\ "final_answer" \in DOMAIN value.o

\* the test of run(): evaluation.get("sufficient") and evaluation.get("final_answer")
IsSufficient(value) ==
    Truthy(DictGet(value.o, "sufficient")) /\ Truthy(DictGet(value.o, "final_answer"))

\* run() returning the verdict's reasoning in place of its final answer
ReturnValue_reasoning(value) == value.o["reasoning"]

\* the value run() returns on a sufficient verdict
ReturnValue(value) == value.o["final_answer"]

----------------------------------------------------------------------------
(* The reasoning loop: SearchAgent.run *)

\* self.max_plans
max_plans == 10

NoStep == [type |-> None, name |-> None, cypher |-> None, text |-> <<>>]

\* the step every iteration may take: a short direct message
BaselineStep == [type |-> "message", name |-> None, cypher |-> None, text |-> Payload(2)]

MessageLens == {DefaultMaxLength - 1, DefaultMaxLength, DefaultMaxLength + 1, MaxTextLen}

\* the other steps the reasoning model may return
VariedSteps ==
    { [type |-> "message", name |-> None, cypher |-> None, text |-> Payload(n)] :
          n \in MessageLens }
    \cup { [type |-> "function_call", name |-> n, cypher |-> None, text |-> <<>>] :
          n \in (RequestableTools \cup {"no_such_tool"}) \ {"run_cypher_query"} }
    \cup { [type |-> "function_call", name |-> "run_cypher_query", cypher |-> c, text |-> <<>>] :
          c \in {"all", "param"} }

\* the steps the reasoning model may return in the i-th iteration
StepsOf(i) ==
    IF i <= MaxVaried \/ i = max_plans THEN {BaselineStep} \cup VariedSteps ELSE {BaselineStep}

\* sizes of the data a backend returns
ResultSizes(tool_name) ==
    IF tool_name \in {"run_cypher_query", "run_sql_query"}
    THEN {0, DefaultMaxLength - 2, DefaultMaxLength - 1, MaxTextLen}
    ELSE {3}

\* run() dispatching a tool call whatever the type of the step
AfterReasoning_always_tool(type) == "ToolExecuting"

\* the position after the reasoning step, by its type
AfterReasoning(type) == IF type = "function_call" THEN "ToolExecuting" ELSE "HistoryUpdate"

\* no build_context() is running
\* no packer has returned
NothingReturned == [context |-> <<>>, context_data |-> EmptyDict]

NoBuild ==
    /\ variant = None
    /\ builder_user_email = None
    /\ openai_client = None
    /\ token_encoder = None
    /\ search_query = <<>>
    /\ options = EmptyDict
    /\ graph = <<>>
    /\ build_pc = "idle"
    /\ session_runs = <<>>
    /\ records = <<>>
    /\ packed = <<>>
    /\ context_chunks = <<>>
    /\ context_records = EmptyDict
    /\ packer_returns = NothingReturned
    /\ build_error = None
    /\ embed_outcome = "none"

\* SearchAgent.__init__ for the caller email
NewAgent(email) ==
    /\ user_email = email
    /\ tools = _load_tools(ToolsDir, Len(ToolsDir)).tools
    /\ tool_classifications = _load_tools(ToolsDir, Len(ToolsDir)).tool_classifications
    /\ reasoning_model_history = InitialHistory
    /\ pc = "Planning"
    /\ iteration = 0
    /\ reasoning_response = NoStep
    /\ tool_result = NoResult
    /\ result_str = <<>>
    /\ judge_prompt = NoPrompt
    /\ judge_content = JudgeResponse("-", "-", EmptyDict)
    /\ evaluation = NoEvaluation
    /\ outcome = "Running"
    /\ result = None
    /\ reasoning_requests = 0
    /\ sufficiency_checks = 0
    /\ tool_calls = 0
    /\ backend_calls = <<>>
    /\ graph_queries = <<>>
    /\ returned = {}
    /\ tools_dir = ToolsDir
    /\ load_warnings = _load_tools(ToolsDir, Len(ToolsDir)).warnings
    /\ load_error = None

Init ==
    /\ \E email \in Emails : NewAgent(email)
    /\ NoBuild
    /\ NoConnection
    /\ NoRequests

\* run(): the loop takes its next iteration and asks the reasoning model
ReasoningModel ==
    /\ pc = "Planning"
    /\ iteration < max_plans
    /\ \E step \in StepsOf(iteration + 1) :
          /\ reasoning_response' = step
          /\ pc' = AfterReasoning(step.type)
    /\ iteration' = iteration + 1
    /\ reasoning_requests' = reasoning_requests + 1
    /\ judge_prompt' = NoPrompt
    /\ judge_content' = JudgeResponse("-", "-", EmptyDict)
    /\ evaluation' = NoEvaluation
    /\ UNCHANGED <<user_email, tool_classifications, tools, reasoning_model_history,
                   tool_result, result_str, outcome, result, sufficiency_checks,
                   tool_calls, backend_calls, graph_queries, returned>>
    /\ UNCHANGED <<builder_vars, loader_vars, connection_vars, request_vars>>

\* run(): await self.call_tool(name, arguments)
CallTool ==
    /\ pc = "ToolExecuting"
    /\ \E fails \in BOOLEAN, size \in ResultSizes(reasoning_response.name) :
          LET e == call_tool(tool_classifications, reasoning_response.name,
                             reasoning_response.cypher, user_email,
                             [fails |-> fails, size |-> size])
          IN /\ tool_calls' = tool_calls + 1
             /\ backend_calls' = backend_calls \o e.calls
             /\ graph_queries' = graph_queries \o e.queries
             /\ returned' = returned \cup e.returned
             /\ tool_result' = e.result
             /\ IF e.raised
                THEN /\ pc' = "done"
                     /\ outcome' = "Raised"
                ELSE /\ pc' = "HistoryUpdate"
                     /\ UNCHANGED outcome
    /\ UNCHANGED <<user_email, tool_classifications, tools, reasoning_model_history,
                   iteration, reasoning_response, result_str, judge_prompt,
                   judge_content, evaluation,
                   result, reasoning_requests, sufficiency_checks>>
    /\ UNCHANGED <<builder_vars, loader_vars, connection_vars, request_vars>>

\* run(): self.update_reasoning_model_history(...)
UpdateHistory ==
    /\ pc = "HistoryUpdate"
    /\ LET response == IF reasoning_response.type = "function_call"
                       THEN tool_result ELSE reasoning_response.text
       IN /\ result_str' = ResultText(response, reasoning_response.type)
          /\ reasoning_model_history' =
                 update_reasoning_model_history(reasoning_model_history, response,
                                                reasoning_response.type)
    /\ pc' = "SufficiencyCheck"
    /\ UNCHANGED <<user_email, tool_classifications, tools, iteration, reasoning_response,
                   tool_result, judge_prompt,
                   judge_content, evaluation, outcome, result,
                   reasoning_requests, sufficiency_checks, tool_calls, backend_calls,
                   graph_queries, returned>>
    /\ UNCHANGED <<builder_vars, loader_vars, connection_vars, request_vars>>

\* run(): evaluation = self.evaluate_sufficiency(...), the test on it, and the
\* loop's exit when the iterations are used up; the locals of the loop body
\* are dead from here on
EvaluateSufficiency ==
    /\ pc = "SufficiencyCheck"
    /\ \E content \in JudgeContents :
          LET value == evaluate_sufficiency(content)
          IN /\ judge_prompt' = evaluation_prompt(Query,
                                  get_reasoning_model_history(reasoning_model_history))
             /\ judge_content' = content
             /\ evaluation' = value
             /\ IF GetRaises(value)
                THEN /\ pc' = "done"
                     /\ outcome' = "Raised"
                     /\ UNCHANGED result
                ELSE IF IsSufficient(value)
                THEN /\ pc' = "done"
                     /\ outcome' = "Done"
                     /\ result' = ReturnValue(value)
                ELSE IF iteration < max_plans
                THEN /\ pc' = "Planning"
                     /\ UNCHANGED <<outcome, result>>
                ELSE /\ pc' = "done"
                     /\ outcome' = "Exhausted"
                     /\ result' = None
    /\ sufficiency_checks' = sufficiency_checks + 1
    /\ reasoning_response' = NoStep
    /\ tool_result' = NoResult
    /\ result_str' = <<>>
    /\ tool_calls' = 0
    /\ backend_calls' = <<>>
    /\ graph_queries' = <<>>
    /\ returned' = {}
    /\ UNCHANGED <<user_email, tool_classifications, tools, reasoning_model_history,
                   iteration, reasoning_requests>>
    /\ UNCHANGED <<builder_vars, loader_vars, connection_vars, request_vars>>

Next == ReasoningModel \/ CallTool \/ UpdateHistory \/ EvaluateSufficiency

Spec == Init /\ [][Next]_vars

----------------------------------------------------------------------------
(* SearchAgent.__init__ over any tools directory *)

MaxFiles == 3

\* the kinds of file a tools directory may hold
FileKinds ==
    { [json |-> TRUE,  load |-> "dict", name |-> "global_search", tool_type |-> "unstructured"],
      [json |-> TRUE,  load |-> "dict", name |-> "run_sql_query", tool_type |-> "structured"],
      [json |-> TRUE,  load |-> "dict", name |-> "summarize",     tool_type |-> None],
      [json |-> TRUE,  load |-> "dict", name |-> None,            tool_type |-> "structured"],
      [json |-> TRUE,  load |-> "JSONDecodeError",    name |-> None, tool_type |-> None],
      [json |-> TRUE,  load |-> "FileNotFoundError",  name |-> None, tool_type |-> None],
      [json |-> TRUE,  load |-> "UnicodeDecodeError", name |-> None, tool_type |-> None],
      [json |-> TRUE,  load |-> "list",               name |-> None, tool_type |-> None],
      [json |-> FALSE, load |-> "dict", name |-> "README",        tool_type |-> None] }

ToolDirs == UNION { [1..n -> FileKinds] : n \in 0..MaxFiles }

\* SearchAgent.__init__ has reached its call of _load_tools
BeforeLoad(email, dir) ==
    /\ user_email = email
    /\ tools = <<>>
    /\ tool_classifications = EmptyDict
    /\ reasoning_model_history = InitialHistory
    /\ pc = "Constructing"
    /\ iteration = 0
    /\ reasoning_response = NoStep
    /\ tool_result = NoResult
    /\ result_str = <<>>
    /\ judge_prompt = NoPrompt
    /\ judge_content = JudgeResponse("-", "-", EmptyDict)
    /\ evaluation = NoEvaluation
    /\ outcome = "Running"
    /\ result = None
    /\ reasoning_requests = 0
    /\ sufficiency_checks = 0
    /\ tool_calls = 0
    /\ backend_calls = <<>>
    /\ graph_queries = <<>>
    /\ returned = {}
    /\ tools_dir = dir
    /\ load_warnings = <<>>
    /\ load_error = None

LoadInit ==
    /\ \E email \in Emails, dir \in ToolDirs : BeforeLoad(email, dir)
    /\ NoBuild
    /\ NoConnection
    /\ NoRequests

\* SearchAgent.__init__: self._load_tools()
LoadTools ==
    /\ pc = "Constructing"
    /\ LET r == _load_tools(tools_dir, Len(tools_dir))
       IN /\ tools' = r.tools
          /\ tool_classifications' = r.tool_classifications
          /\ load_warnings' = r.warnings
          /\ load_error' = r.raised
          /\ pc' = IF r.raised = None THEN "Planning" ELSE "NoAgent"
    /\ UNCHANGED <<user_email, reasoning_model_history, iteration, reasoning_response,
                   tool_result, result_str, judge_prompt,
                   judge_content, evaluation, outcome, result,
                   reasoning_requests, sufficiency_checks, tool_calls, backend_calls,
                   graph_queries, returned, tools_dir>>
    /\ UNCHANGED <<builder_vars, connection_vars, request_vars>>

SpecLoad == LoadInit /\ [][LoadTools]_vars

----------------------------------------------------------------------------
(* The operations of StructuredDataConnection, called in any order *)

MaxPool == 2
MaxCalls == 6

StoreStates == {"ok", "query_fails", "store_down"}

\* StructuredDataConnection.__init__
ConnectionInit ==
    /\ NewAgent(Alice)
    /\ NoBuild
    /\ NoRequests
    /\ max_connections \in 1..MaxPool
    /\ _pool = NoPool
    /\ _is_connected = FALSE
    /\ last_call = Called("__init__", None, None)
    /\ connection_calls = 0

Connect ==
    /\ connection_calls < MaxCalls
    /\ \E store \in StoreStates :
          LET c == connect(_pool, max_connections, store)
          IN /\ _pool' = c.pool
             /\ _is_connected' = c.connected
             /\ last_call' = Called("connect", None, c.returns)
    /\ connection_calls' = connection_calls + 1
    /\ UNCHANGED <<max_connections, agent_vars, builder_vars, loader_vars, request_vars>>

Disconnect ==
    /\ connection_calls < MaxCalls
    /\ LET d == disconnect(_pool, _is_connected)
       IN /\ _pool' = d.pool
          /\ _is_connected' = d.connected
    /\ last_call' = Called("disconnect", None, None)
    /\ connection_calls' = connection_calls + 1
    /\ UNCHANGED <<max_connections, agent_vars, builder_vars, loader_vars, request_vars>>

ExecuteQuery ==
    /\ connection_calls < MaxCalls
    /\ \E store \in StoreStates :
          LET e == execute_query(_pool, _is_connected, store)
          IN /\ _pool' = e.pool
             /\ last_call' = Called("execute_query", e.raised, e.returns)
    /\ connection_calls' = connection_calls + 1
    /\ UNCHANGED <<max_connections, _is_connected, agent_vars, builder_vars, loader_vars, request_vars>>

TestConnection ==
    /\ connection_calls < MaxCalls
    /\ \E store \in StoreStates :
          LET t == test_connection(_pool, _is_connected, store)
          IN /\ _pool' = t.pool
             /\ last_call' = Called("test_connection", t.raised, t.returns)
    /\ connection_calls' = connection_calls + 1
    /\ UNCHANGED <<max_connections, _is_connected, agent_vars, builder_vars, loader_vars, request_vars>>

\* StructuredService.list_tables / get_table_columns / custom_query
SchemaOperations == {"list_tables", "get_table_columns", "custom_query"}

SchemaCall(op, pool, connected, store) ==
    IF op = "list_tables" THEN DatabaseSchema_list_tables(pool, connected, store)
    ELSE IF op = "get_table_columns"
    THEN DatabaseSchema_get_table_columns(pool, connected, store)
    ELSE DatabaseSchema_custom_query(pool, connected, store)

StructuredOperation ==
    /\ connection_calls < MaxCalls
    /\ \E op \in SchemaOperations, store \in StoreStates :
          LET c == SchemaCall(op, _pool, _is_connected, store)
          IN /\ _pool' = c.pool
             /\ last_call' = Called(op, c.raised, c.returns)
    /\ connection_calls' = connection_calls + 1
    /\ UNCHANGED <<max_connections, _is_connected, agent_vars, builder_vars, loader_vars, request_vars>>

ConnectionNext ==
    Connect \/ Disconnect \/ ExecuteQuery \/ TestConnection \/ StructuredOperation

SpecConnection == ConnectionInit /\ [][ConnectionNext]_vars

----------------------------------------------------------------------------
(* Concurrent /query requests (main.py): each constructs a SearchAgent over *)
(* the one UnstructuredService of the process and runs it.  A run gives up *)
(* control only at `await self.call_tool(...)` of a search tool; what it   *)
(* does between two such points is one step.                               *)

\* iterations of run() that a step may take without giving up control
MaxSync == 1

\* iterations of run() that a request of this specification takes at most
MaxRunIterations == 4

\* UnstructuredService.initialize_neo4j_local_context(user_email), called by
\* the SearchAgent.__init__ of request r
initialize_neo4j_local_context(email, r) == [user_email |-> email, installed_by |-> r]

\* n iterations of run() whose step is a message and whose verdict is
\* insufficient
RECURSIVE MessageIterations(_, _)
MessageIterations(history, n) ==
    IF n = 0 THEN history
    ELSE update_reasoning_model_history(MessageIterations(history, n - 1),
                                        BaselineStep.text, "message")

\* run() from the head of its loop: n message iterations, then either a
\* search tool is awaited or a last message iteration ends the run
Proceed(agent, n, ending) ==
    LET history == MessageIterations(agent.reasoning_model_history, n)
    IN IF ending = "await"
       THEN [agent EXCEPT !.reasoning_model_history = history,
                          !.iteration = @ + n + 1, !.pc = "Awaiting"]
       ELSE [agent EXCEPT !.reasoning_model_history =
                              update_reasoning_model_history(history, BaselineStep.text,
                                                             "message"),
                          !.iteration = @ + n + 1, !.pc = "done"]

\* the steps run() may take from the head of its loop
Proceedings(agent) ==
    { Proceed(agent, n, ending) :
        n \in { k \in 0..MaxSync : /\ agent.iteration + k + 1 <= max_plans
                                   /\ agent.iteration + k + 1 <= MaxRunIterations },
        ending \in {"await", "done"} }

\* query_knowledge_graph: SearchAgent(request.query, ..., request.email).run()
\* up to its first await or its end
Request(r) ==
    /\ requests[r].pc = "idle"
    /\ \E email \in {Alice, Bob} :
          /\ neo4j_local_context' = initialize_neo4j_local_context(email, r)
          /\ \E next \in Proceedings([user_email |-> email,
                                       reasoning_model_history |-> InitialHistory,
                                       iteration |-> 0, pc |-> "Planning"]) :
                requests' = [requests EXCEPT ![r] = next]
    /\ UNCHANGED <<agent_vars, builder_vars, loader_vars, connection_vars>>

\* run(): the awaited call_tool returns; the result is appended and judged,
\* and the run ends or goes on to its next await or its end
Resume(r) ==
    /\ requests[r].pc = "Awaiting"
    /\ LET resumed == [requests[r] EXCEPT !.reasoning_model_history =
                          update_reasoning_model_history(@, SuccessEnvelope(Payload(3)),
                                                         "function_call")]
       IN \E next \in Proceedings(resumed) \cup {[resumed EXCEPT !.pc = "done"]} :
             requests' = [requests EXCEPT ![r] = next]
    /\ UNCHANGED neo4j_local_context
    /\ UNCHANGED <<agent_vars, builder_vars, loader_vars, connection_vars>>

RequestsInit ==
    /\ NewAgent(Alice)
    /\ NoBuild
    /\ NoConnection
    /\ NoRequests

RequestsNext == \E r \in Runs : Request(r) \/ Resume(r)

SpecRequests == RequestsInit /\ [][RequestsNext]_vars

----------------------------------------------------------------------------
(* Text and tokens.  A text is a sequence of pieces: words, numbers,       *)
(* punctuation marks, spaces and line ends, each a sequence of ASCII codes *)

SP == <<32>>
NL == <<10>>
\* column_delimiter: str = "|"
column_delimiter == <<124>>

\* punctuation
Mark ==
    [dot |-> <<46>>, colon |-> <<58>>, comma |-> <<44>>, semicolon |-> <<59>>,
     dashes |-> <<45, 45, 45, 45, 45>>, rule |-> <<45, 45, 45>>]

IsSpace(piece) == piece \in {SP, NL}

\* str.strip() leaves something
NonBlank(text) == \E i \in DOMAIN text : ~IsSpace(text[i])

\* len(text.split()): the maximal runs of pieces without white space
SplitCount(text) ==
    Cardinality({ i \in DOMAIN text :
                    /\ ~IsSpace(text[i])
                    /\ (i = 1 \/ IsSpace(text[i - 1])) })

\* graphrag's num_tokens(text, token_encoder): a byte-pair encoder splits the
\* text before every word, number, run of punctuation and line end, and joins a
\* space to the piece after it, so every piece but a space is a token
num_tokens(text, encoder) == Cardinality({ i \in DOMAIN text : text[i] # SP })

\* the characters of a text
RECURSIVE Flatten(_)
Flatten(text) == IF text = <<>> THEN <<>> ELSE Head(text) \o Flatten(Tail(text))

\* str.lower()
lower(chars) == [i \in DOMAIN chars |->
                    IF chars[i] \in 65..90 THEN chars[i] + 32 ELSE chars[i]]

\* needle in hay
Contains(hay, needle) ==
    \E i \in 0..(Len(hay) - Len(needle)) : SubSeq(hay, i + 1, i + Len(needle)) = needle

\* delimiter.join(parts), for a delimiter of several pieces
RECURSIVE join(_, _)
join(delimiter, parts) ==
    IF parts = <<>> THEN <<>>
    ELSE IF Len(parts) = 1 THEN parts[1]
    ELSE parts[1] \o delimiter \o join(delimiter, Tail(parts))

\* str(n) of an integer n >= 0: one number piece
RECURSIVE IntChars(_)
IntChars(n) == IF n < 10 THEN <<48 + n>> ELSE IntChars(n \div 10) \o <<48 + (n % 10)>>

IntStr(n) == <<IntChars(n)>>

\* int(chars)
RECURSIVE ParseInt(_)
ParseInt(chars) ==
    IF chars = <<>> THEN 0
    ELSE 10 * ParseInt(SubSeq(chars, 1, Len(chars) - 1)) + (chars[Len(chars)] - 48)

\* a float is kept as the fraction n/d, d > 0
Float(n, d) == [n |-> n, d |-> d]

FloatLess(a, b) == a.n * b.d < b.n * a.d

FloatDiv(a, b) == Float(a.n * b.d, a.d * b.n)

\* the digits after the point, cut after the third, without trailing zeros
FractionChars(v) ==
    LET m == ((v.n % v.d) * 1000) \div v.d
        d1 == 48 + (m \div 100)
        d2 == 48 + ((m \div 10) % 10)
        d3 == 48 + (m % 10)
    IN IF m % 100 = 0 THEN <<d1>> ELSE IF m % 10 = 0 THEN <<d1, d2>> ELSE <<d1, d2, d3>>

\* str(x) of a float x >= 0, as also DataFrame.to_csv writes a float column:
\* the whole part, the point, the fraction digits ("3.0" for the float 3)
FloatStr(v) == <<IntChars(v.n \div v.d), Mark.dot, FractionChars(v)>>

RECURSIVE Pow10(_)
Pow10(k) == IF k = 0 THEN 1 ELSE 10 * Pow10(k - 1)

\* float(text) of a text that str() of an int or a float produced
ParseFloat(text) ==
    IF Len(text) = 1 THEN Float(ParseInt(text[1]), 1)
    ELSE Float(ParseInt(text[1]) * Pow10(Len(text[3])) + ParseInt(text[3]),
               Pow10(Len(text[3])))

\* words of the stored texts and of the queries
Word ==
    [tax |-> <<116, 97, 120>>,
     Tax |-> <<84, 97, 120>>,
     law |-> <<108, 97, 119>>,
     ai |-> <<97, 105>>,
     acme |-> <<97, 99, 109, 101>>,
     zzz |-> <<122, 122, 122>>,
     None |-> <<78, 111, 110, 101>>]
----------------------------------------------------------------------------
(* The graph store the context builders read *)

\* a null property of a node: None in Python
NullText == <<<<0>>>>

\* COALESCE(values...): the first value that is not null, NullText without one
RECURSIVE COALESCE(_)
COALESCE(values) ==
    IF values = <<>> THEN NullText
    ELSE IF Head(values) # NullText THEN Head(values)
    ELSE COALESCE(Tail(values))

\* OPTIONAL MATCH found no Finding: its properties are null (a null rank is -1)
NoFinding == [summary |-> NullText, full_content |-> NullText, rank |-> -1]

\* the __Community__ nodes there may be, each with its Finding, the names of
\* its entities and the texts of their chunks, in the order of c.community
Communities ==
    << [community |-> 1, userEmail |-> Alice, title |-> <<Word.Tax>>,
        finding |-> [summary |-> <<Word.tax, SP, Word.law>>,
                     full_content |-> <<Word.tax, SP, Word.law, SP, Word.ai>>, rank |-> 3],
        entity_names |-> << <<Word.acme>>, <<Word.ai>> >>, chunk_texts |-> << <<Word.tax>> >>],
       [community |-> 2, userEmail |-> Alice, title |-> <<>>,
        finding |-> NoFinding,
        entity_names |-> << <<Word.acme>> >>, chunk_texts |-> <<>>],
       [community |-> 3, userEmail |-> Alice, title |-> <<Word.law>>,
        finding |-> [summary |-> <<>>, full_content |-> <<Word.law>>, rank |-> 1],
        entity_names |-> << <<Word.acme>> >>,
        chunk_texts |-> << <<Word.law>>, <<Word.ai>>, <<Word.tax>> >>],
       [community |-> 4, userEmail |-> Bob, title |-> <<Word.Tax>>,
        finding |-> [summary |-> NullText, full_content |-> <<Word.ai>>, rank |-> 5],
        entity_names |-> <<>>, chunk_texts |-> << <<Word.ai>> >>],
       [community |-> 5, userEmail |-> Alice, title |-> <<Word.law>>,
        finding |-> NoFinding,
        entity_names |-> <<>>, chunk_texts |-> <<>>],
       [community |-> 6, userEmail |-> Alice, title |-> NullText,
        finding |-> NoFinding,
        entity_names |-> <<>>, chunk_texts |-> <<>>] >>

\* the nodes of a catalogue picked by their positions, in the catalogue's order
RECURSIVE Pick(_, _, _)
Pick(catalogue, positions, n) ==
    IF n = 0 THEN <<>>
    ELSE Pick(catalogue, positions, n - 1)
           \o (IF n \in positions THEN <<catalogue[n]>> ELSE <<>>)

\* MATCH (c:__Community__ {userEmail: $user_email}) ... RETURN {...} as report
\* ORDER BY c.community, and the same without the userEmail key
Report(c) ==
    [id |-> c.community,
     title |-> COALESCE(<<c.finding.summary, c.title>>),
     summary |-> COALESCE(<<c.finding.summary, c.title, <<>> >>),
     full_content |-> COALESCE(<<c.finding.full_content, c.finding.summary, c.title, <<>> >>),
     entity_names |-> c.entity_names,
     chunk_texts |-> c.chunk_texts,
     rank |-> IF c.finding.rank < 0 THEN 0 ELSE c.finding.rank]

CommunityQuery(nodes, scope) ==
    LET matched == SelectSeq(nodes, LAMBDA c : scope = Unscoped \/ c.userEmail = scope)
    IN [i \in DOMAIN matched |-> Report(matched[i])]
----------------------------------------------------------------------------
(* Neo4jGlobalCommunityContext *)

\* community_weight_name: str = "occurrence"
community_weight_name == "occurrence"

\* query.lower().split(): the lowercased runs of pieces between white space
query_terms(query) ==
    { lower(Flatten(SubSeq(query, i, j))) :
        <<i, j>> \in { p \in (DOMAIN query) \X (DOMAIN query) :
                        /\ p[1] <= p[2]
                        /\ \A k \in p[1]..p[2] : ~IsSpace(query[k])
                        /\ (p[1] = 1 \/ IsSpace(query[p[1] - 1]))
                        /\ (p[2] = Len(query) \/ IsSpace(query[p[2] + 1])) } }

\* title + " " + summary + " " + " ".join(entity_names), lowercased
report_text(report) ==
    lower(Flatten(report.title \o <<SP>> \o report.summary \o <<SP>>
                    \o join(<<SP>>, report.entity_names)))

\* any(term in report_text for term in query_terms if len(term) > 2)
IsRelevant(report, terms) ==
    \E term \in terms : Len(term) > 2 /\ Contains(report_text(report), term)

\* the lexical filter: the relevant reports if there is one, all of them otherwise
LexicalFilter(reports, terms) ==
    IF terms = {} THEN reports
    ELSE LET relevant_reports == SelectSeq(reports, LAMBDA r : IsRelevant(r, terms))
         IN IF relevant_reports # <<>> THEN relevant_reports ELSE reports

\* report.get("title", "") + " " raises TypeError on a null title
LexicalFilterRaises(reports, terms) ==
    terms # {} /\ \E i \in DOMAIN reports : reports[i].title = NullText

\* the reports of rank >= min_community_rank, when ranks are included and a
\* minimum is given
RankFilter(reports, include_community_rank, min_community_rank) ==
    IF include_community_rank /\ min_community_rank > 0
    THEN SelectSeq(reports, LAMBDA r : r.rank >= min_community_rank)
    ELSE reports

\* len(set(values))
CountDistinct(values) == Cardinality({ values[i] : i \in DOMAIN values })

\* max of a non-empty sequence of floats
MaxFloat(values) ==
    CHOOSE m \in { values[i] : i \in DOMAIN values } :
        \A i \in DOMAIN values : ~FloatLess(m, values[i])

\* weights that are left as counted, whatever normalize says
_compute_community_weights_neo4j_raw(reports, normalize) ==
    [i \in DOMAIN reports |->
        [occurrence |-> Float(10 * CountDistinct(reports[i].entity_names)
                                + CountDistinct(reports[i].chunk_texts), 10)]
          @@ reports[i]]

_compute_community_weights_neo4j(reports, normalize) ==
    LET raw == [i \in DOMAIN reports |->
                   Float(10 * CountDistinct(reports[i].entity_names)
                           + CountDistinct(reports[i].chunk_texts), 10)]
        max_weight == MaxFloat(raw)
        weight == [i \in DOMAIN reports |->
                      IF normalize /\ reports # <<>> /\ max_weight.n > 0
                      THEN FloatDiv(raw[i], max_weight) ELSE raw[i]]
    IN [i \in DOMAIN reports |->
           [occurrence |-> weight[i]] @@ reports[i]]

\* the session.run() of _get_community_reports_from_neo4j and what it makes
\* of the result
_get_community_reports_from_neo4j(email, nodes, query, opts) ==
    LET scope == IF Truthy(email) THEN email ELSE Unscoped
        reports == CommunityQuery(nodes, scope)
        terms == query_terms(query)
        ranked == RankFilter(LexicalFilter(reports, terms),
                             opts.include_community_rank, opts.min_community_rank)
    IN IF LexicalFilterRaises(reports, terms)
       THEN [raised |-> "TypeError", session_runs |-> <<scope>>, reports |-> <<>>]
       ELSE [raised |-> None, session_runs |-> <<scope>>,
             reports |-> IF opts.include_community_weight
                         THEN _compute_community_weights_neo4j(
                                  ranked, opts.normalize_community_weight)
                         ELSE ranked]

\* the column names and the batch title of the global packer, the labels of a
\* chunk's text
Label ==
    [id |-> <<105, 100>>,
     title |-> <<116, 105, 116, 108, 101>>,
     occurrence |-> <<111, 99, 99, 117, 114, 114, 101, 110, 99, 101>>,
     summary |-> <<115, 117, 109, 109, 97, 114, 121>>,
     content |-> <<99, 111, 110, 116, 101, 110, 116>>,
     rank |-> <<114, 97, 110, 107>>,
     Reports |-> <<82, 101, 112, 111, 114, 116, 115>>,
     Chunk |-> <<67, 104, 117, 110, 107>>,
     ID |-> <<73, 68>>,
     Text |-> <<84, 101, 120, 116>>,
     Entities |-> <<69, 110, 116, 105, 116, 105, 101, 115>>,
     Entity |-> <<69, 110, 116, 105, 116, 121>>,
     Descriptions |-> <<68, 101, 115, 99, 114, 105, 112, 116, 105, 111, 110, 115>>,
     Types |-> <<84, 121, 112, 101, 115>>,
     Documents |-> <<68, 111, 99, 117, 109, 101, 110, 116, 115>>,
     Relevance |-> <<82, 101, 108, 101, 118, 97, 110, 99, 101>>,
     Score |-> <<83, 99, 111, 114, 101>>]

\* f"-----{context_name}-----" + "\n", context_name: str = "Reports"
ReportsTitle == <<Mark.dashes, Label.Reports, Mark.dashes, NL>>

\* a test that lets every report pass
_is_included_any(report) == TRUE

\* bool(report.get("summary") or report.get("full_content"))
_is_included(report) ==
    (report.summary # <<>> /\ report.summary # NullText)
    \/ (report.full_content # <<>> /\ report.full_content # NullText)

\* a header that names the title before the id
_get_header_title_first(opts) ==
    << <<Label.title>>, <<Label.id>> >>
      \o (IF opts.include_community_weight THEN << <<Label.occurrence>> >> ELSE <<>>)
      \o << IF opts.use_community_summary THEN <<Label.summary>> ELSE <<Label.content>> >>
      \o (IF opts.include_community_rank THEN << <<Label.rank>> >> ELSE <<>>)

_get_header(opts) ==
    << <<Label.id>>, <<Label.title>> >>
      \o (IF opts.include_community_weight THEN << <<Label.occurrence>> >> ELSE <<>>)
      \o << IF opts.use_community_summary THEN <<Label.summary>> ELSE <<Label.content>> >>
      \o (IF opts.include_community_rank THEN << <<Label.rank>> >> ELSE <<>>)

\* str(value) of a text property
TextStr(value) == IF value = NullText THEN <<Word.None>> ELSE value

\* _report_context_text(report)[1]: the fields of the report's row
_report_context(report, opts) ==
    << IntStr(report.id), TextStr(report.title) >>
      \o (IF opts.include_community_weight
          THEN << IF community_weight_name \in DOMAIN report
                  THEN FloatStr(report.occurrence) ELSE IntStr(0) >>
          ELSE <<>>)
      \o << IF opts.use_community_summary THEN report.summary ELSE report.full_content >>
      \o (IF opts.include_community_rank THEN << IntStr(report.rank) >> ELSE <<>>)

\* _report_context_text(report)[0]: column_delimiter.join(context) + "\n"
_report_context_text(report, opts) ==
    join(<<column_delimiter>>, _report_context(report, opts)) \o <<NL>>

\* random.seed(86); random.shuffle(x) for a list of n elements: the element
\* put at each position
ShuffleOrder(n) ==
    CASE n = 0 -> <<>>
      [] n = 1 -> <<1>>
      [] n = 2 -> <<2, 1>>
      [] n = 3 -> <<3, 2, 1>>
      [] n = 4 -> <<4, 2, 3, 1>>
      [] n = 5 -> <<2, 5, 4, 3, 1>>
      [] n = 6 -> <<2, 6, 4, 3, 5, 1>>

shuffle(x) == [i \in DOMAIN x |-> x[ShuffleOrder(Len(x))[i]]]

\* _init_batch(): the batch text a batch starts with
_init_batch(opts) ==
    ReportsTitle \o join(<<column_delimiter>>, _get_header(opts)) \o <<NL>>

\* the columns of the data frame that hold the weight and the rank, 0 without
WeightColumn(opts) == IF opts.include_community_weight THEN 3 ELSE 0

RankColumn(opts) == IF opts.include_community_rank THEN Len(_get_header(opts)) ELSE 0

\* _rank_report_context: the sort key of a row, its weight and rank as floats
RowKey(row, opts) ==
    [weight |-> IF WeightColumn(opts) > 0
                THEN ParseFloat(row[WeightColumn(opts)]) ELSE Float(0, 1),
     rank |-> IF RankColumn(opts) > 0
              THEN ParseFloat(row[RankColumn(opts)]) ELSE Float(0, 1)]

KeyLess(a, b) ==
    \/ FloatLess(a.weight, b.weight)
    \/ (~FloatLess(b.weight, a.weight) /\ FloatLess(a.rank, b.rank))

\* sort_values(ascending=False) on the first n rows: their positions in the
\* sorted order; rows of equal keys keep their order
RECURSIVE SortDescending(_, _)
SortDescending(keys, n) ==
    IF n = 0 THEN <<>>
    ELSE LET sorted == SortDescending(keys, n - 1)
         IN SelectSeq(sorted, LAMBDA k : ~KeyLess(keys[k], keys[n]))
              \o <<n>>
              \o SelectSeq(sorted, LAMBDA k : KeyLess(keys[k], keys[n]))

\* astype(float) on the weight and the rank column
AsFloatColumns(row, opts) ==
    [c \in DOMAIN row |->
        IF c > 0 /\ c \in {WeightColumn(opts), RankColumn(opts)}
        THEN FloatStr(ParseFloat(row[c])) ELSE row[c]]

_convert_report_context_to_df(batch_records, opts) ==
    LET keys == [i \in DOMAIN batch_records |-> RowKey(batch_records[i], opts)]
        sorted == SortDescending(keys, Len(batch_records))
    IN [i \in DOMAIN sorted |-> AsFloatColumns(batch_records[sorted[i]], opts)]

\* record_df.to_csv(index=False, sep=column_delimiter)
to_csv(record_df, opts) ==
    join(<<column_delimiter>>, _get_header(opts)) \o <<NL>>
      \o Flatten([i \in DOMAIN record_df |->
                     join(<<column_delimiter>>, record_df[i]) \o <<NL>>])

\* the loop of _build_community_context over the selected reports from the
\* i-th on: the batch when the loop ends, and whether it ended in the break
RECURSIVE PackReports(_, _, _, _, _)
PackReports(selected_reports, i, batch_tokens, batch_records, opts) ==
    IF i > Len(selected_reports)
    THEN [batch_records |-> batch_records, batch_tokens |-> batch_tokens, cut |-> FALSE]
    ELSE LET new_tokens ==
                 num_tokens(_report_context_text(selected_reports[i], opts), token_encoder)
         IN IF batch_tokens + new_tokens > opts.max_context_tokens
            THEN [batch_records |-> batch_records, batch_tokens |-> batch_tokens,
                  cut |-> TRUE]
            ELSE PackReports(selected_reports, i + 1, batch_tokens + new_tokens,
                             Append(batch_records,
                                    _report_context(selected_reports[i], opts)),
                             opts)

\* _cut_batch(): the batches closed so far with the current one added, unless
\* it has no record
_cut_batch(all_context_records, batch_records, opts) ==
    LET record_df == _convert_report_context_to_df(batch_records, opts)
    IN IF Len(record_df) = 0 THEN all_context_records
       ELSE Append(all_context_records, record_df)

\* the text _cut_batch() appends for the n-th closed batch
BatchText(record_df, n, opts) ==
    (IF n = 1 THEN ReportsTitle ELSE <<>>) \o to_csv(record_df, opts)

\* the identifiers of a batch compared as a list, in the order of its rows
IdSet_as_list(batch) == [i \in DOMAIN batch |-> batch[i][1]]

\* {record[0] for record in records}
IdSet(batch) == { batch[i][1] : i \in DOMAIN batch }

_build_community_context(community_reports, opts) ==
    LET included == SelectSeq(community_reports, _is_included)
        selected_reports == IF opts.shuffle_data THEN shuffle(included) ELSE included
        loop == PackReports(selected_reports, 1,
                            num_tokens(_init_batch(opts), token_encoder), <<>>, opts)
        in_loop == IF loop.cut THEN _cut_batch(<<>>, loop.batch_records, opts) ELSE <<>>
        existing_ids_sets == { IdSet(in_loop[k]) : k \in DOMAIN in_loop }
        all_context_records ==
            IF IdSet(loop.batch_records) \notin existing_ids_sets
            THEN _cut_batch(in_loop, loop.batch_records, opts) ELSE in_loop
    IN IF included = <<>> \/ Len(all_context_records) = 0
       THEN [context |-> <<>>, context_data |-> EmptyDict, batch_records |-> <<>>]
       ELSE [context |-> [k \in DOMAIN all_context_records |->
                             BatchText(all_context_records[k], k, opts)],
             context_data |-> [name \in {"reports"} |-> Flatten(all_context_records)],
             batch_records |-> loop.batch_records]
----------------------------------------------------------------------------
(* Neo4jLocalContext *)

\* the embedding property of a chunk, by what cosine_similarity() makes of it
\* against the query embedding: a vector with its similarity in hundredths,
\* null (similarity 0.0), or a value that is no list and no array (raises)
Vector(hundredths) == [kind |-> "vector", similarity |-> hundredths]

NullEmbedding == [kind |-> "null", similarity |-> 0]

BadEmbedding == [kind |-> "bad", similarity |-> 0]

\* the __Chunk__ nodes there may be, with the names of their entities and the
\* titles of their documents, in the order of chunk.id
Chunks ==
    << [id |-> 1, userEmail |-> Alice, text |-> <<Word.tax, SP, Word.law>>,
        entity_names |-> << <<Word.acme>>, <<Word.ai>> >>, document_titles |-> << <<Word.law>> >>,
        embedding |-> Vector(80)],
       [id |-> 2, userEmail |-> Alice, text |-> <<SP>>,
        entity_names |-> <<>>, document_titles |-> <<>>,
        embedding |-> Vector(90)],
       [id |-> 3, userEmail |-> Alice, text |-> <<Word.ai>>,
        entity_names |-> <<>>, document_titles |-> << <<Word.Tax>> >>,
        embedding |-> Vector(30)],
       [id |-> 4, userEmail |-> Bob, text |-> <<Word.tax>>,
        entity_names |-> <<>>, document_titles |-> <<>>,
        embedding |-> Vector(95)],
       [id |-> 5, userEmail |-> Alice, text |-> <<Word.law, SP, Word.ai, SP, Word.tax>>,
        entity_names |-> << <<Word.acme>> >>, document_titles |-> <<>>,
        embedding |-> NullEmbedding],
       [id |-> 6, userEmail |-> Alice, text |-> <<Word.tax>>,
        entity_names |-> <<>>, document_titles |-> <<>>,
        embedding |-> BadEmbedding] >>

\* relevance_score_threshold: float = 0.3
relevance_score_threshold == Float(3, 10)

\* relevance_score: 0 in the query's RETURN: the int 0
IntScore == [kind |-> "int", value |-> Float(0, 1)]

FloatScore(hundredths) == [kind |-> "float", value |-> Float(hundredths, 100)]

\* MATCH (chunk:__Chunk__ {userEmail: $user_email}) ... ORDER BY chunk.id
ChunkQuery(nodes, email) ==
    LET matched == SelectSeq(nodes, LAMBDA c : c.userEmail = email)
    IN [i \in DOMAIN matched |->
           [id |-> matched[i].id, text |-> matched[i].text,
            entity_names |-> matched[i].entity_names,
            entity_descriptions |-> <<>>, entity_types |-> <<>>,
            document_titles |-> matched[i].document_titles,
            embedding |-> matched[i].embedding,
            relevance_score |-> IntScore]]

\* chunks.sort(key=relevance_score, reverse=True): chunks of equal score keep
\* their order
RECURSIVE SortByScore(_)
SortByScore(chunks) ==
    IF chunks = <<>> THEN <<>>
    ELSE LET sorted == SortByScore(SubSeq(chunks, 1, Len(chunks) - 1))
             chunk == chunks[Len(chunks)]
             before == SelectSeq(sorted, LAMBDA c :
                          ~FloatLess(c.relevance_score.value, chunk.relevance_score.value))
             after == SelectSeq(sorted, LAMBDA c :
                          FloatLess(c.relevance_score.value, chunk.relevance_score.value))
         IN before \o <<chunk>> \o after

\* a try block that gives every chunk its score as soon as it is computed: the
\* chunks before the one cosine_similarity raises on are left scored
ScoreChunks_as_computed(chunks, embed_ok) ==
    IF ~embed_ok THEN chunks
    ELSE LET bad == { i \in DOMAIN chunks : chunks[i].embedding.kind = "bad" }
             scored == [i \in DOMAIN chunks |->
                           IF \A b \in bad : i < b
                           THEN [chunks[i] EXCEPT !.relevance_score =
                                    FloatScore(chunks[i].embedding.similarity)]
                           ELSE chunks[i]]
         IN IF bad # {} THEN scored
            ELSE SelectSeq(SortByScore(scored), LAMBDA c :
                    ~FloatLess(c.relevance_score.value, relevance_score_threshold))

\* the try block of get_chunks_from_neo4j: embed() fails, or cosine_similarity
\* raises on one chunk, and the chunks stay as queried; otherwise every chunk
\* gets its score, and the chunks are sorted and cut at the threshold
ScoreChunks(chunks, embed_ok) ==
    IF ~embed_ok \/ \E i \in DOMAIN chunks : chunks[i].embedding.kind = "bad"
    THEN chunks
    ELSE LET scored == [i \in DOMAIN chunks |->
                           [chunks[i] EXCEPT !.relevance_score =
                               FloatScore(chunks[i].embedding.similarity)]]
         IN SelectSeq(SortByScore(scored), LAMBDA c :
               ~FloatLess(c.relevance_score.value, relevance_score_threshold))

\* get_chunks_from_neo4j without its check of self.openai_client
get_chunks_from_neo4j_unchecked_client(email, client, nodes, embed_ok) ==
    IF ~Truthy(email)
    THEN [raised |-> "ValueError", session_runs |-> <<>>, chunks |-> <<>>,
          embedded |-> FALSE]
    ELSE LET chunks == ChunkQuery(nodes, email)
         IN [raised |-> None, session_runs |-> <<email>>,
             chunks |-> IF chunks # <<>> THEN ScoreChunks(chunks, embed_ok) ELSE chunks,
             embedded |-> chunks # <<>>]

\* Neo4jLocalContext.get_chunks_from_neo4j
get_chunks_from_neo4j(email, client, nodes, embed_ok) ==
    IF ~Truthy(email)
    THEN [raised |-> "ValueError", session_runs |-> <<>>, chunks |-> <<>>,
          embedded |-> FALSE]
    ELSE IF ~Truthy(client)
    THEN [raised |-> "ValueError", session_runs |-> <<>>, chunks |-> <<>>,
          embedded |-> FALSE]
    ELSE LET chunks == ChunkQuery(nodes, email)
         IN [raised |-> None, session_runs |-> <<email>>,
             chunks |-> IF chunks # <<>> THEN ScoreChunks(chunks, embed_ok) ELSE chunks,
             embedded |-> chunks # <<>>]


\* "\n\n---\n\n"
ChunkSeparator == <<NL, NL, Mark.rule, NL, NL>>

\* bool(chunk.get("text", "").strip())
_is_included_chunk(chunk) == NonBlank(chunk.text)

\* str(chunk["relevance_score"])
ScoreStr(score) == IF score.kind = "int" THEN IntStr(score.value.n) ELSE FloatStr(score.value)

\* _chunk_context_text(chunk)[0]
_chunk_context_text(chunk) ==
    <<Label.Chunk, SP, Label.ID, Mark.colon, SP>> \o IntStr(chunk.id) \o <<NL>>
      \o <<Label.Text, Mark.colon, SP>> \o chunk.text \o <<NL>>
      \o <<Label.Entities, Mark.colon, SP>> \o join(<<Mark.comma, SP>>, chunk.entity_names) \o <<NL>>
      \o <<Label.Entity, SP, Label.Descriptions, Mark.colon, SP>>
      \o join(<<Mark.semicolon, SP>>, chunk.entity_descriptions) \o <<NL>>
      \o <<Label.Entity, SP, Label.Types, Mark.colon, SP>>
      \o join(<<Mark.comma, SP>>, chunk.entity_types) \o <<NL>>
      \o <<Label.Documents, Mark.colon, SP>> \o join(<<Mark.comma, SP>>, chunk.document_titles) \o <<NL>>
      \o <<Label.Relevance, SP, Label.Score, Mark.colon, SP>> \o ScoreStr(chunk.relevance_score)
      \o <<NL>>

\* _chunk_context_text(chunk)[1]
_chunk_record(chunk) ==
    << IntStr(chunk.id), chunk.text, join(<<Mark.comma, SP>>, chunk.entity_names),
       join(<<Mark.semicolon, SP>>, chunk.entity_descriptions),
       join(<<Mark.comma, SP>>, chunk.entity_types),
       join(<<Mark.comma, SP>>, chunk.document_titles), ScoreStr(chunk.relevance_score) >>

\* num_tokens(context_text, self.token_encoder) if self.token_encoder
\* else len(context_text.split())
chunk_tokens(context_text, encoder) ==
    IF Truthy(encoder) THEN num_tokens(context_text, encoder) ELSE SplitCount(context_text)

\* the loop of _build_chunks_context over the included chunks from the i-th on
RECURSIVE PackChunks(_, _, _, _, _, _)
PackChunks(included_chunks, i, current_tokens, current_context, current_records, opts) ==
    IF i > Len(included_chunks)
    THEN [current_context |-> current_context, current_records |-> current_records,
          current_tokens |-> current_tokens]
    ELSE LET context_text == _chunk_context_text(included_chunks[i])
             tokens == chunk_tokens(context_text, token_encoder)
         IN IF current_tokens + tokens > opts.max_context_tokens /\ current_context # <<>>
            THEN [current_context |-> current_context,
                  current_records |-> current_records,
                  current_tokens |-> current_tokens]
            ELSE PackChunks(included_chunks, i + 1, current_tokens + tokens,
                            Append(current_context, context_text),
                            Append(current_records, _chunk_record(included_chunks[i])),
                            opts)

_build_chunks_context(chunks_data, opts) ==
    LET included_chunks == SelectSeq(chunks_data, _is_included_chunk)
        loop == PackChunks(included_chunks, 1, 0, <<>>, <<>>, opts)
    IN IF chunks_data = <<>>
       THEN [raised |-> None, context |-> <<>>, context_data |-> EmptyDict,
             current_records |-> <<>>]
       ELSE IF included_chunks = <<>>
       THEN [raised |-> "IndexError", context |-> <<>>, context_data |-> EmptyDict,
             current_records |-> <<>>]
       ELSE [raised |-> None, context |-> join(ChunkSeparator, loop.current_context),
             context_data |-> EmptyDict, current_records |-> loop.current_records]
----------------------------------------------------------------------------
(* build_context() of the two builders *)

\* the largest max_context_tokens considered
MaxCeiling == 44

\* the largest number of nodes in the graph store
MaxNodes == 3

\* the keyword arguments of the global builder: the factory's
\* context_builder_params, build_context's defaults, and variations
Flags(use_community_summary, shuffle_data, include_community_rank, min_community_rank, include_community_weight, normalize_community_weight) ==
    [use_community_summary |-> use_community_summary,
     shuffle_data |-> shuffle_data,
     include_community_rank |-> include_community_rank,
     min_community_rank |-> min_community_rank,
     include_community_weight |-> include_community_weight,
     normalize_community_weight |-> normalize_community_weight]

FlagSets ==
    { Flags(FALSE, TRUE, TRUE, 0, TRUE, TRUE),
      Flags(TRUE, TRUE, FALSE, 0, TRUE, TRUE),
      Flags(TRUE, FALSE, FALSE, 0, FALSE, TRUE),
      Flags(FALSE, FALSE, TRUE, 2, TRUE, FALSE),
      Flags(TRUE, TRUE, TRUE, 0, FALSE, TRUE) }

Options(flags, max_context_tokens) ==
    [max_context_tokens |-> max_context_tokens] @@ flags

Queries == { <<>>, <<Word.Tax, SP, Word.ai>>, <<Word.zzz>> }

\* build_context(conversation_history=None)
NoHistory == [given |-> FALSE, context |-> <<>>, context_data |-> EmptyDict]

\* the conversation_history argument, by what its build_context() returns: no
\* history, a history without turns (an empty text), and a history with a
\* turn, whose tables have a name of their own and the name `name`
Histories(name) ==
    { NoHistory,
      [given |-> TRUE, context |-> <<>>,
       context_data |-> [n \in {"conversation history"} |-> <<>>]],
      [given |-> TRUE, context |-> <<Word.Tax, SP, Word.law>>,
       context_data |-> [n \in {"conversation history", name} |->
                           << <<IntStr(9), <<Word.law>>>> >>]] }

\* build_context: the keyword arguments with conversation_history
WithHistory(opts, history) == [conversation_history |-> history] @@ opts

\* build_context: context_prefix
context_prefix(history) ==
    IF history.given /\ history.context # <<>> THEN history.context \o <<NL, NL>> ELSE <<>>

\* build_context: final_context_data before the update with the batch data
conversation_context_data(history) ==
    IF history.given /\ history.context # <<>> THEN history.context_data ELSE EmptyDict

\* final_context_data with the conversation data written over the batch data
final_context_data_history_last(history, batch_data) ==
    conversation_context_data(history) @@ batch_data

\* build_context: final_context_data.update(batch data)
final_context_data(history, batch_data) ==
    batch_data @@ conversation_context_data(history)

\* build_context: final_context for the list of batches of the global packer
final_context_list(history, community_context) ==
    [k \in DOMAIN community_context |-> context_prefix(history) \o community_context[k]]

\* build_context: final_context for the text of the local packer
final_context_text(history, chunks_context) == context_prefix(history) \o chunks_context

\* the graph stores: up to MaxNodes nodes of a catalogue
Stores(catalogue) ==
    { Pick(catalogue, positions, Len(catalogue)) :
        positions \in { s \in SUBSET (DOMAIN catalogue) : Cardinality(s) <= MaxNodes } }

\* a builder constructed for user_email over a graph store
BuildInit ==
    /\ NewAgent(Alice)
    /\ NoConnection
    /\ NoRequests
    /\ variant \in {"global", "local"}
    /\ builder_user_email \in {Alice, None}
    /\ openai_client \in (IF variant = "local" THEN {None, "client"} ELSE {None})
    /\ token_encoder \in (IF variant = "local" THEN {None, "encoder"} ELSE {"encoder"})
    /\ search_query = <<>>
    /\ options = EmptyDict
    /\ graph \in (IF variant = "local" THEN Stores(Chunks) ELSE Stores(Communities))
    /\ build_pc = "Start"
    /\ session_runs = <<>>
    /\ records = <<>>
    /\ packed = <<>>
    /\ context_chunks = <<>>
    /\ context_records = EmptyDict
    /\ packer_returns = NothingReturned
    /\ build_error = None
    /\ embed_outcome = "none"

\* Neo4jGlobalCommunityContext.build_context(query, **options) is called:
\* _get_community_reports_from_neo4j
GlobalRetrieve ==
    /\ build_pc = "Start"
    /\ variant = "global"
    /\ \E query \in Queries, flags \in FlagSets, max_context_tokens \in 0..MaxCeiling,
          history \in Histories("reports") :
          LET opts == WithHistory(Options(flags, max_context_tokens), history)
              r == _get_community_reports_from_neo4j(builder_user_email, graph,
                                                     query, opts)
          IN /\ search_query' = query
             /\ options' = opts
             /\ session_runs' = r.session_runs
             /\ records' = r.reports
             /\ build_error' = r.raised
             /\ build_pc' = IF r.raised = None THEN "Retrieved" ELSE "Raised"
    /\ UNCHANGED <<variant, builder_user_email, openai_client, token_encoder,
                   graph, packed, packer_returns, context_chunks, context_records,
                   embed_outcome>>
    /\ UNCHANGED <<agent_vars, loader_vars, connection_vars, request_vars>>

\* Neo4jGlobalCommunityContext.build_context: _build_community_context and the
\* result (no conversation history: no prefix, no conversation records)
GlobalPack ==
    /\ build_pc = "Retrieved"
    /\ variant = "global"
    /\ LET p == _build_community_context(records, options)
       IN /\ packed' = p.batch_records
          /\ packer_returns' = [context |-> p.context, context_data |-> p.context_data]
          /\ context_chunks' = final_context_list(options.conversation_history, p.context)
          /\ context_records' =
                final_context_data(options.conversation_history, p.context_data)
    /\ build_pc' = "Returned"
    /\ UNCHANGED <<variant, builder_user_email, openai_client, token_encoder,
                   search_query, options, graph, session_runs, records, build_error,
                   embed_outcome>>
    /\ UNCHANGED <<agent_vars, loader_vars, connection_vars, request_vars>>

\* Neo4jLocalContext.build_context(query, **options) is called:
\* get_chunks_from_neo4j
LocalRetrieve ==
    /\ build_pc = "Start"
    /\ variant = "local"
    /\ \E embed_ok \in BOOLEAN, max_context_tokens \in 0..MaxCeiling,
          history \in Histories("chunks") :
          LET r == get_chunks_from_neo4j(builder_user_email, openai_client, graph,
                                         embed_ok)
          IN /\ search_query' = <<Word.Tax, SP, Word.ai>>
             /\ options' = WithHistory(Options(Flags(TRUE, TRUE, FALSE, 0, TRUE, TRUE),
                                               max_context_tokens), history)
             /\ session_runs' = r.session_runs
             /\ records' = r.chunks
             /\ embed_outcome' = IF ~r.embedded THEN "none"
                                 ELSE IF embed_ok THEN "ok" ELSE "raised"
             /\ build_error' = r.raised
             /\ build_pc' = IF r.raised = None THEN "Retrieved" ELSE "Raised"
    /\ UNCHANGED <<variant, builder_user_email, openai_client, token_encoder,
                   graph, packed, packer_returns, context_chunks, context_records>>
    /\ UNCHANGED <<agent_vars, loader_vars, connection_vars, request_vars>>

\* Neo4jLocalContext.build_context: _build_chunks_context and the result
LocalPack ==
    /\ build_pc = "Retrieved"
    /\ variant = "local"
    /\ LET p == _build_chunks_context(records, options)
       IN /\ packed' = p.current_records
          /\ packer_returns' =
                IF p.raised = None
                THEN [context |-> p.context, context_data |-> p.context_data]
                ELSE NothingReturned
          /\ context_chunks' =
                IF p.raised = None
                THEN final_context_text(options.conversation_history, p.context)
                ELSE <<>>
          /\ context_records' =
                IF p.raised = None
                THEN final_context_data(options.conversation_history, p.context_data)
                ELSE EmptyDict
          /\ build_error' = p.raised
          /\ build_pc' = IF p.raised = None THEN "Returned" ELSE "Raised"
    /\ UNCHANGED <<variant, builder_user_email, openai_client, token_encoder,
                   search_query, options, graph, session_runs, records, embed_outcome>>
    /\ UNCHANGED <<agent_vars, loader_vars, connection_vars, request_vars>>

BuildNext == GlobalRetrieve \/ GlobalPack \/ LocalRetrieve \/ LocalPack

SpecContext == BuildInit /\ [][BuildNext]_vars

----------------------------------------------------------------------------
(* Properties of the reasoning loop *)

Last(seq) == seq[Len(seq)]

\* the last history entry is a tool result
StartsWithToolResult(content) ==
    /\ Len(content) >= Len(ToolResultPrefix)
    /\ SubSeq(content, 1, Len(ToolResultPrefix)) = ToolResultPrefix

\* C1: run() never takes more than 10 iterations (10 reasoning requests, 10
\* sufficiency checks), and a run that ends without a sufficient verdict ends
\* Exhausted, returning None, and not by raising.
C1_TerminatesWithinTenOrExhausted ==
    /\ iteration <= 10
    /\ reasoning_requests <= 10
    /\ sufficiency_checks <= 10
    /\ (pc = "done" /\ outcome # "Done") => (outcome = "Exhausted" /\ result = None)

\* C2: a run that ends on a sufficient verdict with a final answer at iteration k
\* has made exactly k reasoning requests and k sufficiency checks, returns that
\* answer (not None), and takes no further step.
C2_SufficientAtIterationK ==
    outcome = "Done" =>
        /\ iteration \in 1..10
        /\ reasoning_requests = iteration
        /\ sufficiency_checks = iteration
        /\ judge_content.t = "json" /\ judge_content.k = "object"
        /\ judge_content.o["sufficient"] = PyTrue
        /\ result = judge_content.o["final_answer"]
        /\ result # None
        /\ pc = "done"
        /\ ~ENABLED ReasoningModel
        /\ ~ENABLED CallTool

\* a tool call in iteration 1, a sufficient verdict in iteration 2
C2_Witness ==
    /\ outcome = "Done"
    /\ iteration = 2
    /\ StartsWithToolResult(reasoning_model_history[3].content)
    /\ result = Answer

\* C3: every iteration requests exactly one reasoning step; a function_call step
\* executes exactly one tool call in its iteration and a message step none.
C3_OneStepOneToolCall ==
    /\ pc # "done" => reasoning_requests = iteration
    /\ pc \in {"ToolExecuting", "HistoryUpdate", "SufficiencyCheck"} =>
          reasoning_requests = sufficiency_checks + 1
    /\ pc = "Planning" => reasoning_requests = sufficiency_checks
    /\ tool_calls <= 1
    /\ pc = "ToolExecuting" => (reasoning_response.type = "function_call" /\ tool_calls = 0)
    /\ pc \in {"HistoryUpdate", "SufficiencyCheck"} =>
          tool_calls = (IF reasoning_response.type = "function_call" THEN 1 ELSE 0)
    /\ Len(backend_calls) <= tool_calls

\* the last iteration's step was a tool invocation and its one tool call, which
\* reached one service operation, is done
C3_Witness ==
    /\ pc = "SufficiencyCheck"
    /\ iteration = max_plans
    /\ reasoning_response.type = "function_call"
    /\ tool_calls = 1
    /\ Len(backend_calls) = 1

\* the judge's response is an object with the fields of a verdict
WellFormedVerdict(content) ==
    /\ content.t = "json"
    /\ content.k = "object"
    /\ {"sufficient", "final_answer"} \subseteq DOMAIN content.o

\* C7: a judge response that is no well-formed verdict counts as insufficient:
\* the loop goes on to the next iteration (or is exhausted) and nothing is raised.
C7_MalformedJudgeIsInsufficient ==
    (judge_content.t # "-" /\ ~WellFormedVerdict(judge_content)) =>
        /\ outcome \notin {"Raised", "Done"}
        /\ IF iteration < 10 THEN pc = "Planning" ELSE outcome = "Exhausted"

\* the tool named by the step has neither backend class
Unclassified(tool_name) ==
    \/ tool_name \notin DOMAIN tool_classifications
    \/ tool_classifications[tool_name] \notin {"structured", "unstructured"}

\* C8: a tool call without a structured/unstructured classification reaches no
\* backend, gives the explicit result "No tool call" without raising, and that
\* result is appended to the history before the sufficiency check.
C8_UnclassifiedToolCall ==
    (reasoning_response.type = "function_call" /\ tool_calls = 1
        /\ Unclassified(reasoning_response.name)) =>
        /\ outcome = "Running"
        /\ pc \in {"HistoryUpdate", "SufficiencyCheck"}
        /\ backend_calls = <<>>
        /\ graph_queries = <<>>
        /\ tool_result = NoToolCall
        /\ pc = "SufficiencyCheck" =>
              /\ Len(reasoning_model_history) = 2 + iteration
              /\ Last(reasoning_model_history).content =
                     ToolResultPrefix \o <<34>> \o NoToolCallText \o <<34>>

\* a call of a tool that was never loaded, folded into the history
C8_Witness ==
    /\ pc = "SufficiencyCheck"
    /\ reasoning_response.type = "function_call"
    /\ reasoning_response.name = "no_such_tool"
    /\ tool_result = NoToolCall
    /\ StartsWithToolResult(Last(reasoning_model_history).content)

\* C9: an exception of a backend or store during a tool call never aborts run():
\* the call yields a result, which is appended to the history before the
\* sufficiency check.
C9_BackendFailureIsEnveloped ==
    tool_calls = 1 =>
        /\ outcome # "Raised"
        /\ pc \in {"HistoryUpdate", "SufficiencyCheck"}
        /\ tool_result # NoResult
        /\ pc = "SufficiencyCheck" => Len(reasoning_model_history) = 2 + iteration

\* C6: every graph query a run issues is scoped to the run's identity, and every
\* record returned to it is owned by that identity.
C6_RetrievalScopedToCaller ==
    /\ \A i \in 1..Len(graph_queries) : graph_queries[i] = user_email
    /\ returned \subseteq OwnedBy(user_email)

\* C10: the entry appended to the history carries the result text unchanged when
\* it has at most 2000 characters, and otherwise its first 2000 characters
\* followed by the truncation marker.
C10_HistoryEntryTruncated ==
    pc = "SufficiencyCheck" =>
        LET content == Last(reasoning_model_history).content
            skip == IF reasoning_response.type = "function_call"
                    THEN Len(ToolResultPrefix) ELSE 0
            body == SubSeq(content, skip + 1, Len(content))
        IN /\ Len(reasoning_model_history) = 2 + iteration
           /\ Last(reasoning_model_history).role = "assistant"
           /\ reasoning_response.type = "function_call" => StartsWithToolResult(content)
           /\ Len(result_str) <= 2000 => body = result_str
           /\ Len(result_str) > 2000 =>
                 /\ Len(body) = 2000 + Len(TruncationMarker)
                 /\ SubSeq(body, 1, 2000) = SubSeq(result_str, 1, 2000)
                 /\ SubSeq(body, 2001, Len(body)) = TruncationMarker

\* a tool result of more than 2000 characters was appended
C10_Witness ==
    /\ pc = "SufficiencyCheck"
    /\ reasoning_response.type = "function_call"
    /\ Len(result_str) > 2000
    /\ Len(Last(reasoning_model_history).content) =
           Len(ToolResultPrefix) + 2000 + Len(TruncationMarker)

----------------------------------------------------------------------------
(* Properties of the context builders *)

\* the batches the packer returned: the list of the global packer, the one
\* text of the local packer (none when it is empty)
Batches ==
    IF variant = "local"
    THEN (IF packer_returns.context = <<>> THEN <<>> ELSE <<packer_returns.context>>)
    ELSE packer_returns.context

\* the token count of a returned batch, in the measure its packer counts with
BatchTokens(text) ==
    IF variant = "local" THEN chunk_tokens(text, token_encoder)
    ELSE num_tokens(text, token_encoder)

\* C4: for every list of candidate records and every max_context_tokens, each
\* batch the global packer and the local packer return has a serialized token
\* count, header included, that is at most max_context_tokens
C4_BatchWithinCeiling ==
    build_pc = "Returned" =>
        \A k \in DOMAIN Batches : BatchTokens(Batches[k]) <= options.max_context_tokens

\* C5: for both builders, when user_email is absent build_context() fails with
\* an error before any graph-store query is issued: no query runs without a
\* scoping key
C5_AbsentIdentityFailsBeforeQuery ==
    (~Truthy(builder_user_email) /\ build_pc # "Start") =>
        /\ build_pc = "Raised"
        /\ build_error # None
        /\ session_runs = <<>>

----------------------------------------------------------------------------
(* Further properties of the reasoning loop *)

\* the entries the history holds at each position of run()
HistoryLength ==
    IF pc \in {"ToolExecuting", "HistoryUpdate"} \/ (pc = "done" /\ tool_calls = 1)
    THEN 1 + iteration ELSE 2 + iteration

\* C11: the history starts as [system prompt, user query]; no step shortens it
\* or changes an entry it holds; each completed iteration appends exactly one
\* assistant entry, so that it holds 2 + i entries after i iterations.
C11_HistoryAppendOnly ==
    /\ [](/\ Len(reasoning_model_history) = HistoryLength
          /\ SubSeq(reasoning_model_history, 1, 2) = InitialHistory
          /\ \A i \in 3..Len(reasoning_model_history) :
                reasoning_model_history[i].role = "assistant")
    /\ [][/\ Len(reasoning_model_history') >= Len(reasoning_model_history)
          /\ SubSeq(reasoning_model_history', 1, Len(reasoning_model_history))
                = reasoning_model_history
          /\ (pc = "HistoryUpdate" /\ pc' = "SufficiencyCheck") =>
                Len(reasoning_model_history') = Len(reasoning_model_history) + 1]_vars

\* ten iterations are completed: the history holds twelve entries
C11_Witness ==
    /\ pc = "done"
    /\ outcome = "Exhausted"
    /\ Len(reasoning_model_history) = 2 + max_plans

----------------------------------------------------------------------------
(* Further properties of the context builders *)

\* the identifiers of a sequence of records, in their order
Ids(rows) == [i \in DOMAIN rows |-> rows[i].id]

\* the reports the global builder's query returned, before any filter
Candidates == CommunityQuery(graph, GlobalQueryScope(builder_user_email))

\* the global builder has made its query and no rank filter applies
LexicalFilterApplied ==
    /\ variant = "global"
    /\ build_pc # "Start"
    /\ ~(options.include_community_rank /\ options.min_community_rank > 0)

\* C12: for every query and every non-empty set of candidate reports, the
\* lexical filter returns exactly the reports whose lowercased title, summary
\* and entity names contain a query term of more than two characters if there
\* is such a report, and all candidates otherwise; its result is never empty.
C12_LexicalFilterExactOrAll ==
    (LexicalFilterApplied /\ Candidates # <<>>) =>
        LET terms == query_terms(search_query)
            matching == SelectSeq(Candidates, LAMBDA r : IsRelevant(r, terms))
        IN /\ build_pc # "Raised"
           /\ records # <<>>
           /\ Ids(records) = Ids(IF matching # <<>> THEN matching ELSE Candidates)

\* the global builder has weighted a non-empty list of reports, normalizing
NormalizedWeights ==
    /\ variant = "global"
    /\ build_pc \in {"Retrieved", "Returned"}
    /\ options.include_community_weight
    /\ options.normalize_community_weight
    /\ records # <<>>

\* C13: after _compute_community_weights_neo4j with normalization, on a
\* non-empty list of reports, every weight lies in [0, 1] and the largest is
\* 1.0, or every weight is 0 when the largest count was 0.
C13_NormalizedWeightsInUnitRange ==
    NormalizedWeights =>
        LET weight == [i \in DOMAIN records |-> records[i].occurrence]
            counted == \E i \in DOMAIN records :
                          records[i].entity_names # <<>> \/ records[i].chunk_texts # <<>>
        IN /\ \A i \in DOMAIN records :
                 weight[i].d > 0 /\ 0 <= weight[i].n /\ weight[i].n <= weight[i].d
           /\ IF counted
              THEN \E i \in DOMAIN records : weight[i].n = weight[i].d
              ELSE \A i \in DOMAIN records : weight[i].n = 0

\* three reports were weighted: one has the weight 1.0, one a weight strictly
\* between 0 and 1, one the weight 0
C13_Witness ==
    /\ NormalizedWeights
    /\ Len(records) = 3
    /\ \E i, j, k \in DOMAIN records :
          /\ records[i].occurrence.n = records[i].occurrence.d
          /\ 0 < records[j].occurrence.n
          /\ records[j].occurrence.n < records[j].occurrence.d
          /\ records[k].occurrence.n = 0

\* the number of pieces of a text that equal piece
CountPiece(text, piece) == Cardinality({ i \in DOMAIN text : text[i] = piece })

\* the records serialized in the returned text are the packed ones: a batch of
\* the global packer has a title line, a header line and a line per record, the
\* text of the local packer one "Chunk ID" block per record
SerializedArePacked ==
    IF variant = "global"
    THEN \A k \in DOMAIN Batches :
            CountPiece(Batches[k], NL) = 2 + Len(packed)
    ELSE CountPiece(packer_returns.context, Label.Chunk) = Len(packed)

\* C14: no record with empty content is serialized into a batch: the global
\* packer leaves out every report whose summary and full content are both
\* empty, the local packer every chunk whose text is empty or white space, and
\* every record of a returned batch passes _is_included.
C14_OnlyIncludedRecordsPacked ==
    build_pc = "Returned" =>
        /\ SerializedArePacked
        /\ \A k \in DOMAIN packed :
              \E i \in DOMAIN records :
                 /\ packed[k][1] = IntStr(records[i].id)
                 /\ IF variant = "global"
                    THEN records[i].summary # <<>> \/ records[i].full_content # <<>>
                    ELSE /\ packed[k][2] = records[i].text
                         /\ \E p \in DOMAIN records[i].text :
                               records[i].text[p] \notin {SP, NL}

\* the global packer returned a batch of two reports and left out a report
\* whose summary and full content are empty
C14_Witness ==
    /\ variant = "global"
    /\ build_pc = "Returned"
    /\ Len(packed) = 2
    /\ Len(context_chunks) = 1
    /\ \E i \in DOMAIN records :
          records[i].summary = <<>> /\ records[i].full_content = <<>>

\* the packer of build_context() has run: the retrieval before it did not raise
PackerRan ==
    \/ build_pc = "Returned"
    \/ build_pc = "Raised" /\ build_error \notin {"ValueError", "TypeError"}

\* C15: when no record is packed (no candidate, every candidate left out for
\* empty content, or the first record alone above the budget) the global and
\* the local packer return an empty result and do not raise.
C15_NothingPackedReturnsEmpty ==
    (PackerRan /\ packed = <<>>) =>
        /\ build_pc = "Returned"
        /\ build_error = None
        /\ packer_returns = NothingReturned

----------------------------------------------------------------------------
(* Properties of agent construction *)

\* a tool definition file whose definition cannot be read as a tool object
FailsToParse(f) == f.json /\ f.load # "dict"

\* a tool definition file holding an object with a name
WellFormed(f) == f.json /\ f.load = "dict" /\ Truthy(f.name)

Positions(dir, Test(_)) == SelectSeq([i \in 1..Len(dir) |-> i], LAMBDA i : Test(dir[i]))

\* C16: for every set of tool definition files the construction of the agent
\* completes: every file that fails to parse is skipped with a warning, and
\* every well-formed definition is in the tool list and in the classification
\* map.
C16_ConstructionCompletes ==
    (pc # "Constructing") =>
        LET loaded == Positions(tools_dir, WellFormed)
        IN /\ pc # "NoAgent"
           /\ load_error = None
           /\ load_warnings = Positions(tools_dir, FailsToParse)
           /\ tools = [k \in 1..Len(loaded) |-> tools_dir[loaded[k]].name]
           /\ \A k \in 1..Len(loaded) :
                 /\ tools_dir[loaded[k]].name \in DOMAIN tool_classifications
                 /\ \E j \in 1..Len(loaded) :
                       /\ tools_dir[loaded[j]].name = tools_dir[loaded[k]].name
                       /\ tool_classifications[tools_dir[loaded[k]].name]
                             = tools_dir[loaded[j]].tool_type

----------------------------------------------------------------------------
(* Properties of the dispatch of tool calls *)

\* the operations of the structured and of the unstructured service
StructuredOperations == {"list_tables", "get_table_columns", "custom_query"}
UnstructuredOperations == {"global_search", "local_search", "run_cypher_query"}

\* the operation a tool name selects
SelectedOperation(tool_name) ==
    CASE tool_name = "get_all_tables" -> <<"list_tables">>
      [] tool_name = "get_table_schema" -> <<"get_table_columns">>
      [] tool_name = "run_sql_query" -> <<"custom_query">>
      [] tool_name \in UnstructuredOperations -> <<tool_name>>
      [] OTHER -> <<>>

\* C17: call_tool routes by classification: a tool classified structured
\* reaches only the structured service, a tool classified unstructured only the
\* unstructured service; one call invokes at most one backend operation, the
\* one its tool name selects, and never both backends.
C17_RoutesByClassification ==
    (reasoning_response.type = "function_call" /\ tool_calls = 1) =>
        LET tool_type == DictGet(tool_classifications, reasoning_response.name)
            operations == { backend_calls[i] : i \in DOMAIN backend_calls }
        IN /\ Len(backend_calls) <= 1
           /\ tool_type = "structured" => operations \subseteq StructuredOperations
           /\ tool_type = "unstructured" => operations \subseteq UnstructuredOperations
           /\ ~(/\ operations \cap StructuredOperations # {}
                 /\ operations \cap UnstructuredOperations # {})
           /\ tool_type \in {"structured", "unstructured"} =>
                 backend_calls = SelectedOperation(reasoning_response.name)

\* a structured tool has reached the query operation of the structured service
C17_Witness ==
    /\ pc = "HistoryUpdate"
    /\ tool_calls = 1
    /\ reasoning_response.name = "run_sql_query"
    /\ tool_classifications["run_sql_query"] = "structured"
    /\ backend_calls = <<"custom_query">>

----------------------------------------------------------------------------
(* Properties of the retrieval of chunks *)

\* C18: the embedding-similarity retrieval fails with an error, before any
\* session of the graph store is opened, whenever no embedding client is
\* configured or no user email is supplied; it never returns records then.
C18_ScoringUnavailableFailsFirst ==
    (/\ variant = "local"
     /\ build_pc # "Start"
     /\ ~Truthy(openai_client) \/ ~Truthy(builder_user_email)) =>
        /\ build_pc = "Raised"
        /\ build_error = "ValueError"
        /\ session_runs = <<>>
        /\ records = <<>>
        /\ packed = <<>>
        /\ context_chunks = <<>>

\* a builder with a user email and no embedding client, over a store that
\* holds a chunk of that user, has raised
C18_Witness ==
    /\ variant = "local"
    /\ builder_user_email = Alice
    /\ openai_client = None
    /\ \E i \in DOMAIN graph : graph[i].userEmail = Alice
    /\ build_pc = "Raised"
    /\ build_error = "ValueError"
    /\ session_runs = <<>>

\* the chunks of the builder's user whose similarity to the query meets the
\* threshold
MeetingThreshold ==
    SelectSeq(ChunkQuery(graph, builder_user_email), LAMBDA c :
        /\ c.embedding.kind = "vector"
        /\ ~FloatLess(FloatScore(c.embedding.similarity).value, relevance_score_threshold))

\* C19: the chunks get_chunks_from_neo4j returns are in non-increasing order of
\* relevance score, each has a score of at least the threshold (0.3), and no
\* candidate whose score meets the threshold is dropped.
C19_ChunksSortedAndAboveThreshold ==
    (variant = "local" /\ build_pc # "Start" /\ build_error # "ValueError") =>
        /\ \A i \in 1..(Len(records) - 1) :
              ~FloatLess(records[i].relevance_score.value,
                         records[i + 1].relevance_score.value)
        /\ \A i \in DOMAIN records :
              ~FloatLess(records[i].relevance_score.value, relevance_score_threshold)
        /\ \A k \in DOMAIN MeetingThreshold :
              \E i \in DOMAIN records : records[i].id = MeetingThreshold[k].id

----------------------------------------------------------------------------
(* Properties of the connection manager *)

\* the connections checked out of the pool
CheckedOut == _pool.used

\* C20: no connection of the relational store stays checked out of the pool
\* beyond the operation that took it: after connect() and after every
\* execute_query or test_connection call, succeeded or raised, every
\* connection obtained from the pool has been returned to it.
C20_NoConnectionCheckedOut ==
    last_call.op \in {"connect", "execute_query", "test_connection"} =>
        CheckedOut = 0

----------------------------------------------------------------------------
(* Properties of concurrent requests *)

\* the entries the history of a run holds: the two initial ones and one for
\* each iteration whose result was appended
OwnHistoryLength(agent) ==
    IF agent.pc = "Awaiting" THEN 1 + agent.iteration ELSE 2 + agent.iteration

\* C21: two runs that interleave at their await points share no mutable
\* state: while a run is in flight its history holds its own entries only,
\* and the local context its construction installed on the shared
\* UnstructuredService, with its scoping identity, is still the installed one:
\* the other run has not written it.
C21_RunsShareNoState ==
    \A r \in Runs :
        requests[r].pc = "Awaiting" =>
            /\ Len(requests[r].reasoning_model_history) = OwnHistoryLength(requests[r])
            /\ SubSeq(requests[r].reasoning_model_history, 1, 2) = InitialHistory
            /\ neo4j_local_context =
                   [user_email |-> requests[r].user_email, installed_by |-> r]

----------------------------------------------------------------------------
(* Further properties of the connection manager *)

\* the values that report a failure to the caller
FailureReports == {"error dict", "not established", "failure"}

\* C22: when the connection pool is not established (never connected, connect
\* failed, or disconnected) every structured operation (list tables, table
\* columns, custom query, test_connection) gives the caller a failure envelope
\* that reports the failure, raises nothing, and leaves the connection state
\* as it was.
C22_NotEstablishedIsReported ==
    /\ []((/\ last_call.op \in SchemaOperations \cup {"test_connection"}
            /\ ~is_connected(_is_connected, _pool)) =>
              /\ last_call.raised = None
              /\ last_call.returns \in FailureReports)
    /\ [][(/\ last_call'.op \in SchemaOperations \cup {"test_connection"}
            /\ ~is_connected(_is_connected, _pool)) =>
              /\ _pool' = _pool
              /\ _is_connected' = _is_connected]_vars

----------------------------------------------------------------------------
(* The order of the external calls of a run *)

\* the contents of the messages from the i-th on, each after a line end
RECURSIVE ContentsFrom(_, _)
ContentsFrom(history, i) ==
    IF i > Len(history) THEN <<>>
    ELSE <<10>> \o history[i].content \o ContentsFrom(history, i + 1)

\* the positions of run() in the order a run takes them
FollowsInOrder(from, to) ==
    \/ from = "Planning" /\ to \in {"ToolExecuting", "HistoryUpdate"}
    \/ from = "ToolExecuting" /\ to \in {"HistoryUpdate", "done"}
    \/ from = "HistoryUpdate" /\ to = "SufficiencyCheck"
    \/ from = "SufficiencyCheck" /\ to \in {"Planning", "done"}

\* C23: within one run the external calls never overlap and follow the order
\* Planning, ToolExecuting, HistoryUpdate, SufficiencyCheck: the sufficiency
\* check of iteration i is issued only after iteration i's result was appended
\* and is evaluated over the whole accumulated history, that entry included,
\* and the original query; the reasoning request of iteration i+1 is issued
\* only after that verdict is returned.
C23_CallsInOrder ==
    /\ [](/\ reasoning_requests - sufficiency_checks \in {0, 1}
          /\ pc = "SufficiencyCheck" =>
                /\ Len(reasoning_model_history) = 2 + iteration
                /\ sufficiency_checks = iteration - 1
          /\ judge_content.t # "-" =>
                /\ sufficiency_checks = iteration
                /\ reasoning_requests = iteration
                /\ Len(reasoning_model_history) = 2 + iteration
                /\ judge_prompt.query = Query
                /\ judge_prompt.history =
                       reasoning_model_history[1].content
                         \o ContentsFrom(reasoning_model_history, 2))
    /\ [][/\ pc' # pc => FollowsInOrder(pc, pc')
          /\ reasoning_requests' # reasoning_requests =>
                /\ pc = "Planning"
                /\ reasoning_requests' = reasoning_requests + 1
                /\ sufficiency_checks = reasoning_requests
                /\ UNCHANGED <<sufficiency_checks, tool_calls>>
          /\ tool_calls' > tool_calls =>
                /\ pc = "ToolExecuting"
                /\ UNCHANGED <<reasoning_requests, sufficiency_checks>>
          /\ sufficiency_checks' # sufficiency_checks =>
                /\ pc = "SufficiencyCheck"
                /\ sufficiency_checks' = sufficiency_checks + 1
                /\ UNCHANGED reasoning_requests]_vars

\* the judge of the last iteration was called over twelve messages, the last
\* the result of that iteration's tool call
C23_Witness ==
    /\ iteration = max_plans
    /\ pc = "done"
    /\ judge_content.t = "json"
    /\ Len(reasoning_model_history) = 2 + max_plans
    /\ StartsWithToolResult(Last(reasoning_model_history).content)
    /\ Len(judge_prompt.history) > Len(Last(reasoning_model_history).content)

----------------------------------------------------------------------------
(* Properties of the batches of the packers *)

\* the rows of the tabular form the packer returned under a name, none without it
Table(name) ==
    IF name \in DOMAIN packer_returns.context_data
    THEN packer_returns.context_data[name]
    ELSE <<>>

\* C24: the global packer follows a single-batch policy: once a record would
\* exceed the budget the batch is closed and no further record accepted, the
\* duplicate-batch guard keeps the closed batch from being appended again, so
\* the output holds at most one batch and every packed record is in it exactly
\* once.
C24_SingleBatch ==
    (variant = "global" /\ build_pc = "Returned") =>
        /\ Len(Batches) <= 1
        /\ Len(context_chunks) = Len(Batches)
        /\ packed # <<>> =>
              /\ Len(Batches) = 1
              /\ CountPiece(Batches[1], NL) = 2 + Len(packed)
              /\ Len(Table("reports")) = Len(packed)
              /\ \A k \in DOMAIN packed :
                    Cardinality({ j \in DOMAIN Table("reports") :
                                    Table("reports")[j][1] = packed[k][1] }) = 1

\* the batch was closed in the loop, at a record that would exceed the budget,
\* with two records of different weight in it
C24_Witness ==
    /\ variant = "global"
    /\ build_pc = "Returned"
    /\ Len(packed) = 2
    /\ Cardinality({ i \in DOMAIN records : _is_included(records[i]) }) = 3
    /\ Len(context_chunks) = 1
    /\ Table("reports")[1][1] # packed[1][1]

\* the name of the batch class of the builder, as the key of context_records
BatchClassName == IF variant = "global" THEN "reports" ELSE "chunks"

\* C25: whenever a packer (global or local) returns a non-empty context text
\* it also returns the tabular form: context_records maps the name of the
\* batch class to a record set that holds exactly the serialized records.
C25_TextComesWithTable ==
    (build_pc = "Returned" /\ Batches # <<>>) =>
        /\ BatchClassName \in DOMAIN packer_returns.context_data
        /\ Len(Table(BatchClassName)) = Len(packed)
        /\ { Table(BatchClassName)[j][1] : j \in DOMAIN Table(BatchClassName) }
              = { packed[k][1] : k \in DOMAIN packed }

----------------------------------------------------------------------------
(* Properties of the conversation block of build_context *)

\* the conversation history given to build_context() has a non-empty text
HasConversationBlock ==
    options.conversation_history.given /\ options.conversation_history.context # <<>>

\* a batch of the packer behind the conversation block and a blank line
Prefixed(batch) == options.conversation_history.context \o <<NL, NL>> \o batch

\* C26: in build_context (both variants), when a non-empty conversation block
\* exists every output batch is prefixed with it and context_records is the
\* union of the conversation-derived and the batch-derived record sets, in
\* which the batch-derived data wins for a name present in both; without
\* conversation history the batches and the records are returned unprefixed
\* and unmerged.
C26_ConversationBlockPrefixed ==
    build_pc = "Returned" =>
        IF HasConversationBlock
        THEN /\ IF variant = "global"
                THEN /\ Len(context_chunks) = Len(packer_returns.context)
                     /\ \A k \in DOMAIN context_chunks :
                           context_chunks[k] = Prefixed(packer_returns.context[k])
                ELSE context_chunks = Prefixed(packer_returns.context)
             /\ DOMAIN context_records =
                    DOMAIN options.conversation_history.context_data
                       \cup DOMAIN packer_returns.context_data
             /\ \A name \in DOMAIN context_records :
                    context_records[name] =
                       IF name \in DOMAIN packer_returns.context_data
                       THEN packer_returns.context_data[name]
                       ELSE options.conversation_history.context_data[name]
        ELSE /\ context_chunks = packer_returns.context
             /\ context_records = packer_returns.context_data

\* the global builder returned a batch behind a conversation block whose
\* record sets have a "reports" of their own, and the reports of the batch won
C26_Witness ==
    /\ variant = "global"
    /\ build_pc = "Returned"
    /\ HasConversationBlock
    /\ "reports" \in DOMAIN options.conversation_history.context_data
    /\ Len(packed) = 2
    /\ Len(context_chunks) = 1
    /\ context_records["reports"] # options.conversation_history.context_data["reports"]
    /\ "conversation history" \in DOMAIN context_records

----------------------------------------------------------------------------
(* Properties of the header and the rows of the global packer *)

\* the parts of a text between the pieces that equal sep
RECURSIVE SplitAt(_, _)
SplitAt(text, sep) ==
    IF \A i \in DOMAIN text : text[i] # sep THEN <<text>>
    ELSE LET first == CHOOSE i \in DOMAIN text :
                         text[i] = sep /\ \A j \in 1..(i - 1) : text[j] # sep
         IN <<SubSeq(text, 1, first - 1)>>
               \o SplitAt(SubSeq(text, first + 1, Len(text)), sep)

\* the field a row holds for a report in the column of a name
ColumnValue(name, report) ==
    CASE name = <<Label.id>> -> IntStr(report.id)
      [] name = <<Label.title>> -> TextStr(report.title)
      [] name = <<Label.occurrence>> -> FloatStr(ParseFloat(FloatStr(report.occurrence)))
      [] name = <<Label.summary>> -> report.summary
      [] name = <<Label.content>> -> report.full_content
      [] name = <<Label.rank>> -> FloatStr(Float(report.rank, 1))
      [] OTHER -> NullText

\* the lines of the batch the global packer returned
BatchLines == SplitAt(Batches[1], NL)

\* the fields of the header line and of the line of the j-th record
HeaderFields == SplitAt(BatchLines[2], column_delimiter)

RowFields(j) == SplitAt(BatchLines[2 + j], column_delimiter)

\* C27: for every combination of the weight-inclusion and rank-inclusion
\* flags, the header built by the global packer contains the weight column if
\* and only if weighting is enabled and the rank column if and only if rank
\* inclusion is enabled, and every serialized record row has the same number
\* of fields, in the same column order, as the header.
C27_RowsFollowHeader ==
    (variant = "global" /\ build_pc = "Returned" /\ Batches # <<>>) =>
        /\ Len(BatchLines) = 3 + Len(packed)
        /\ (\E c \in DOMAIN HeaderFields : HeaderFields[c] = <<Label.occurrence>>)
              <=> options.include_community_weight
        /\ (\E c \in DOMAIN HeaderFields : HeaderFields[c] = <<Label.rank>>)
              <=> options.include_community_rank
        /\ \A j \in DOMAIN packed :
              /\ Len(RowFields(j)) = Len(HeaderFields)
              /\ \E i \in DOMAIN records :
                    \A c \in DOMAIN HeaderFields :
                       RowFields(j)[c] = ColumnValue(HeaderFields[c], records[i])

\* the global packer returned a batch of two records with the rank column and
\* without the weight column
C27_Witness ==
    /\ variant = "global"
    /\ build_pc = "Returned"
    /\ options.include_community_rank
    /\ ~options.include_community_weight
    /\ Len(packed) = 2
    /\ Len(HeaderFields) = 4
    /\ Len(RowFields(2)) = 4

\* a batch with the weight column and without the rank column
C27_WitnessWeight ==
    /\ variant = "global"
    /\ build_pc = "Returned"
    /\ ~options.include_community_rank
    /\ options.include_community_weight
    /\ Len(packed) = 2
    /\ Len(HeaderFields) = 4

----------------------------------------------------------------------------
(* Properties of the packing order *)

\* the included records in the order the packer's loop takes them
PackingOrder ==
    IF variant = "global"
    THEN LET included == SelectSeq(records, _is_included)
         IN IF options.shuffle_data THEN shuffle(included) ELSE included
    ELSE SelectSeq(records, _is_included_chunk)

\* the token cost the loop counts for a record
RecordCost(record) ==
    IF variant = "global"
    THEN num_tokens(_report_context_text(record, options), token_encoder)
    ELSE chunk_tokens(_chunk_context_text(record), token_encoder)

\* the cumulative cost of the first n records in packing order, with the
\* header overhead of the global packer
RECURSIVE PrefixCost(_)
PrefixCost(n) ==
    IF n = 0
    THEN (IF variant = "global" THEN num_tokens(_init_batch(options), token_encoder) ELSE 0)
    ELSE PrefixCost(n - 1) + RecordCost(PackingOrder[n])

\* what the packer keeps of a record it packs
PackedForm(record) ==
    IF variant = "global" THEN _report_context(record, options) ELSE _chunk_record(record)

\* the packed records are the first records in packing order
PackedIsPrefix ==
    /\ Len(packed) <= Len(PackingOrder)
    /\ \A k \in DOMAIN packed : packed[k] = PackedForm(PackingOrder[k])

\* C28: the set of records a packer places in its batch is always a prefix of
\* the included records in packing order: the longest prefix whose cumulative
\* token cost (plus header overhead in the global packer) stays within the
\* ceiling; a later record is never packed after an earlier one was rejected,
\* even if it would fit.
C28_LongestPrefixWithinCeiling ==
    build_pc = "Returned" =>
        /\ PackedIsPrefix
        /\ packed # <<>> => PrefixCost(Len(packed)) <= options.max_context_tokens
        /\ Len(packed) < Len(PackingOrder) =>
              PrefixCost(Len(packed) + 1) > options.max_context_tokens

----------------------------------------------------------------------------
(* Properties of the end of the reasoning loop *)

\* the judge's verdict says sufficient and has no final answer: the field is
\* missing, null or the empty string
SufficientWithoutAnswer(content) ==
    /\ content.t = "json"
    /\ content.k = "object"
    /\ DictGet(content.o, "sufficient") = PyTrue
    /\ DictGet(content.o, "final_answer") \in {None, ""}

\* C29: run() ends in Done only on a verdict that is both sufficient and
\* carries a non-empty final answer; a verdict with sufficient = true and a
\* missing, null or empty final_answer does not end the loop, which goes on as
\* for an insufficient verdict; and whenever run() returns a value, that value
\* is the final_answer of the last verdict.
C29_DoneOnlyWithAnswer ==
    /\ outcome = "Done" =>
          /\ pc = "done"
          /\ judge_content.t = "json" /\ judge_content.k = "object"
          /\ DictGet(judge_content.o, "sufficient") = PyTrue
          /\ DictGet(judge_content.o, "final_answer") \notin {None, ""}
    /\ SufficientWithoutAnswer(judge_content) =>
          IF iteration < max_plans
          THEN pc = "Planning" /\ outcome = "Running" /\ result = None
          ELSE pc = "done" /\ outcome = "Exhausted" /\ result = None
    /\ result # None =>
          /\ outcome = "Done"
          /\ result = DictGet(judge_content.o, "final_answer")

\* the judge found the first iteration sufficient without a final answer and
\* the loop went on to plan the second
C29_Witness ==
    /\ pc = "Planning"
    /\ iteration = 1
    /\ sufficiency_checks = 1
    /\ SufficientWithoutAnswer(judge_content)
    /\ "final_answer" \notin DOMAIN judge_content.o

----------------------------------------------------------------------------
(* Properties of relevance scoring *)

\* the chunks the query of get_chunks_from_neo4j gave, in chunk-id order, each
\* with the relevance_score 0 of the query
CandidateChunks == ChunkQuery(graph, builder_user_email)

\* computing the query embedding or the similarity of a chunk failed
ScoringFailed ==
    \/ embed_outcome = "raised"
    \/ \E i \in DOMAIN CandidateChunks : CandidateChunks[i].embedding.kind = "bad"

\* the candidate a returned chunk was
CandidateOf(chunk) == CHOOSE c \in { CandidateChunks[i] : i \in DOMAIN CandidateChunks } : c.id = chunk.id

\* C30: relevance scoring in get_chunks_from_neo4j is all-or-nothing: if
\* computing the query embedding or any chunk similarity fails, no chunk's
\* relevance_score is modified (all stay 0), the threshold filter and the sort
\* are not applied, and the full candidate list is returned in chunk-id order;
\* otherwise every candidate's score has been assigned before sorting and
\* filtering.
C30_ScoringAllOrNothing ==
    (variant = "local" /\ build_pc \in {"Retrieved", "Returned"} /\ embed_outcome # "none") =>
        IF ScoringFailed
        THEN /\ records = CandidateChunks
             /\ \A i \in DOMAIN records : records[i].relevance_score = IntScore
             /\ \A i \in DOMAIN records : \A j \in DOMAIN records :
                   i < j => records[i].id < records[j].id
        ELSE /\ \A i \in DOMAIN records :
                   /\ \E k \in DOMAIN CandidateChunks : CandidateChunks[k].id = records[i].id
                   /\ records[i].relevance_score =
                         FloatScore(CandidateOf(records[i]).embedding.similarity)
             /\ \A i \in DOMAIN records : \A j \in DOMAIN records :
                   i < j => ~FloatLess(records[i].relevance_score.value,
                                       records[j].relevance_score.value)
             /\ { records[i].id : i \in DOMAIN records }
                   = { CandidateChunks[k].id : k \in { k \in DOMAIN CandidateChunks :
                          ~FloatLess(Float(CandidateChunks[k].embedding.similarity, 100),
                                     relevance_score_threshold) } }

\* the query embedding was computed, the similarity of the first chunk too, and
\* that of a later chunk failed: the chunks are returned as they were queried
C30_Witness ==
    /\ variant = "local"
    /\ build_pc = "Retrieved"
    /\ embed_outcome = "ok"
    /\ Len(records) = 3
    /\ records[1].embedding.kind = "vector"
    /\ records[3].embedding.kind = "bad"
    /\ records[1].relevance_score = IntScore

====
